---- MODULE Spec2Model ----
(***************************************************************************)
(* migratorx: the Workflow Runner, the Replica Upgrade Orchestrator and    *)
(* the Promotion Gate (with the Checks Runner it drives), modelled as      *)
(* state machines translated from the Go sources.                          *)
(***************************************************************************)
EXTENDS Integers, Sequences, FiniteSets, TLC

(* ------------------------------ bounds --------------------------------- *)
MaxSteps == 2
MaxFindings == 2
MaxOrchRuns == 3
MaxChecks == 2
MaxCheckFindings == 1
MaxStateCalls == 3
MaxWrites == 2
MaxTasks == 2
MaxTables == 2
MaxPlanSteps == 3
MaxKeyCols == 2
MaxAggFindings == 3

(* ------------------- severity / finding / summary ---------------------- *)
\* part_004:13-17 (the same iota enum is repeated in every package)
SeverityInfo == 0
SeverityWarn == 1
SeverityBlock == 2
Severities == {SeverityInfo, SeverityWarn, SeverityBlock}

\* A Finding is modelled by its severity and by who produced it:
\* "step" (returned by Step.Run), "gate" (the runner's mutation gate),
\* "error" (the runner's translation of a returned error).
Finding(sev, origin) == [sev |-> sev, origin |-> origin]

ZeroSummary == [info |-> 0, warn |-> 0, block |-> 0]

\* part_004:217-225
RECURSIVE countSeverity(_, _)
countSeverity(findings, sv) ==
    IF findings = <<>> THEN 0
    ELSE (IF Head(findings).sev = sv THEN 1 ELSE 0) + countSeverity(Tail(findings), sv)

\* part_004:188-199: the aggregation loop of Runner.Run, one finding at a time
RECURSIVE AggregateFindings(_, _)
AggregateFindings(summary, findings) ==
    IF findings = <<>> THEN summary
    ELSE LET f == Head(findings)
             s == CASE f.sev = SeverityInfo  -> [summary EXCEPT !.info = @ + 1]
                    [] f.sev = SeverityWarn  -> [summary EXCEPT !.warn = @ + 1]
                    [] f.sev = SeverityBlock -> [summary EXCEPT !.block = @ + 1]
                    [] OTHER -> summary
         IN AggregateFindings(s, Tail(findings))

\* faulty variant of BlockedBy: a Block finding does not set blocked
BlockedByNever(findings) == FALSE
\* part_004:188-199: blocked is set by any Block finding of the batch
BlockedBy(findings) == \E i \in 1..Len(findings) : findings[i].sev = SeverityBlock

(* ---------------------------- Workflow Runner -------------------------- *)
StepNames == {"a", "b"}
\* Runner.results: an absent key, and a recorded StepResult
NoResult == [present |-> FALSE, findings |-> <<>>]
StepResult(findings) == [present |-> TRUE, findings |-> findings]

\* A Step as the runner sees it before running it: Name, Idempotent, Mutates
StepConfigs == [name : StepNames, idempotent : BOOLEAN, mutates : BOOLEAN]

SeqsUpTo(S, n) == UNION {[1..k -> S] : k \in 0..n}

StepLists == SeqsUpTo(StepConfigs, MaxSteps)

\* What one call of Step.Run may return: findings and an error or nil
StepFindings == SeqsUpTo({Finding(s, "step") : s \in Severities}, MaxFindings)
StepOutcomes == [findings : StepFindings, err : BOOLEAN]

VARIABLES
    rSteps,      \* Runner.Steps
    rAllow,      \* Runner.AllowMutations
    rCompleted,  \* State: the set of step names marked completed
    rResults,    \* Runner.results: step name -> StepResult (or NoResult)
    rSummary,    \* the local summary of Run
    rErr,        \* the error Run returned: "nil", "config", "ctx"
    rPc,         \* "idle", "loop", "returned"
    rIdx,        \* position of the range loop (1-based)
    rCtxDone,    \* ctx.Done() is closed
    rInvoked,    \* indices of the steps whose Run was invoked, in order
    rLastOut     \* what the last invoked Step.Run returned: findings and error

runnerVars == <<rSteps, rAllow, rCompleted, rResults, rSummary, rErr, rPc, rIdx,
                rCtxDone, rInvoked, rLastOut>>

VARIABLES
    oPrimary,      \* UpgradeOrchestrator.Primary
    oInspectorNil, \* UpgradeOrchestrator.Inspector == nil
    oActionsNil,   \* UpgradeOrchestrator.Actions == nil
    oStore,        \* UpgradeOrchestrator.State: checkpoint key -> stored value
    oPc,           \* per invocation of Run: "idle", "primary", "status", "getStopped",
                   \* "getResumed", "check", "act", "set", "returned"
    oLocal,        \* per invocation: the status and the stopped checkpoint as Run read them
    oPhase,        \* per invocation: the phase (1..3) Run is at, 0 outside the phases
    oReplica,      \* per invocation: the trimmed replica argument
    oSummary,      \* per invocation: summary
    oFindings,     \* per invocation: findings
    oErr,          \* per invocation: the returned error, "nil" or "config"
    oLog,          \* per invocation: the calls made on Inspector and Actions and the checkpoint writes
    oRuns,         \* number of invocations of Run so far
    oCalls,        \* host -> phase -> number of invocations of the phase's action
    oFailures,     \* host -> number of action invocations that returned an error
    oRunsDone      \* host -> number of invocations that ran through all three phases

orchVars == <<oPrimary, oInspectorNil, oActionsNil, oStore, oPc, oLocal, oPhase, oReplica,
              oSummary, oFindings, oErr, oLog, oRuns, oCalls, oFailures, oRunsDone>>

VARIABLES
    gPhrase,       \* PromotionGate.ConfirmationPhrase
    gRequired,     \* PromotionGate.RequiredCheckNames
    gChecks,       \* PromotionGate.Checks: each check's Name and ReadOnly
    gConfirmation, \* the confirmation argument of Run
    gPc,           \* "idle", "checks", "returned"
    gIdx,          \* position of the Checks Runner's range loop (1-based)
    gRunSummary,   \* the Checks Runner's summary
    gResults,      \* the Checks Runner's results: one Result per executed check
    gSummary,      \* the Summary the gate returned
    gFindings,     \* the findings the gate returned
    gErr,          \* the error the gate returned: "nil", "phrase", "readonly"
    gInvoked       \* indices of the checks whose Run was invoked, in order

gateVars == <<gPhrase, gRequired, gChecks, gConfirmation, gPc, gIdx, gRunSummary,
              gResults, gSummary, gFindings, gErr, gInvoked>>

VARIABLES
    cChecks,       \* checks.Runner.Checks: each check's Name and ReadOnly
    cPc,           \* "idle", "loop", "returned"
    cIdx,          \* position of the range loop of Run (1-based)
    cSummary,      \* the local summary of Run
    cResults,      \* the local results of Run
    cInvoked,      \* indices of the checks whose Run was invoked, in order
    cLastOut,      \* what the last invoked check's Run returned: findings and error
    cRet           \* what Run returned: summary, results (nil or not) and error

checksVars == <<cChecks, cPc, cIdx, cSummary, cResults, cInvoked, cLastOut, cRet>>

VARIABLES
    sFile,         \* the state file at the path: whether it exists, and its bytes
    sOpen,         \* FileState instance -> where NewFileState is: "no" (not called),
                   \* "create", "write", "writing", "read", "failed" (it returned
                   \* an error), "open" (it returned the instance)
    sBuf,          \* FileState instance -> the bytes os.ReadFile has read so far in load
    sData,         \* FileState instance -> FileState.data
    sMu,           \* FileState instance -> the thread holding FileState.mu (0: free)
    sBase,         \* FileState instance -> data as loaded by NewFileState
    sDone,         \* State object -> the Set/MarkCompleted calls that returned, in order
    sFailed,       \* FileState instance -> persist has returned an error
    mValues,       \* MemoryState.values
    mCompleted,    \* MemoryState.completed
    mWriter,       \* the thread holding MemoryState.mu for writing (0: none)
    mReaders,      \* the threads holding MemoryState.mu for reading
    tPc,           \* thread -> "idle", "lock", "body", "marshal", "truncate", "write",
                   \* "unlock"
    tCall,         \* thread -> the call in progress, or the last one when idle
    tBytes,        \* thread -> the bytes json.MarshalIndent produced in persist
    tOff,          \* thread -> how many of them os.WriteFile has written
    tWrites,       \* thread -> how many writes os.WriteFile has made for them
    tRet,          \* thread -> what the last Get or IsCompleted returned
    tCalls         \* number of calls begun so far

stateVars == <<sFile, sOpen, sBuf, sData, sMu, sBase, sDone, sFailed, mValues, mCompleted,
               mWriter, mReaders, tPc, tCall, tBytes, tOff, tWrites, tRet, tCalls>>

VARIABLES
    kCheck,        \* the check: its Name()
    kCfg,          \* the fields of the check: Inspector nil, name or hosts empty
    kInsp,         \* what each method of the inspector returns
    kPc,           \* "ready", "returned"
    kOut           \* what Run returned, and whether an inspector call failed

oneCheckVars == <<kCheck, kCfg, kInsp, kPc, kOut>>

VARIABLES
    pFn,           \* the function under study
    pIn,           \* its arguments
    pOut,          \* <<>> before the call, <<result>> after it
    pPc            \* "ready", "returned"

pureVars == <<pFn, pIn, pOut, pPc>>

\* ---- ResultAggregator and applySummary, called batch after batch ----
VARIABLES
    aAgg,          \* the ResultAggregator: its summary and blocked fields
    aRet,          \* <<>> before the first AddFindings, then <<what it returned>>
    aBatches,      \* the batches handed to AddFindings so far
    ySummary,      \* the Summary that applySummary is handed
    yBatches       \* the batches handed to applySummary so far
aggVars == <<aAgg, aRet, aBatches, ySummary, yBatches>>

vars == <<runnerVars, orchVars, gateVars, checksVars, stateVars, oneCheckVars, pureVars, aggVars>>

\* what an action of one component leaves alone: the other components
notRunnerVars == <<orchVars, gateVars, checksVars, stateVars, oneCheckVars, pureVars, aggVars>>
notOrchVars == <<runnerVars, gateVars, checksVars, stateVars, oneCheckVars, pureVars, aggVars>>
notGateVars == <<runnerVars, orchVars, checksVars, stateVars, oneCheckVars, pureVars, aggVars>>
notChecksVars == <<runnerVars, orchVars, gateVars, stateVars, oneCheckVars, pureVars, aggVars>>
notStateVars == <<runnerVars, orchVars, gateVars, checksVars, oneCheckVars, pureVars, aggVars>>
notOneCheckVars == <<runnerVars, orchVars, gateVars, checksVars, stateVars, pureVars, aggVars>>
notPureVars == <<runnerVars, orchVars, gateVars, checksVars, stateVars, oneCheckVars, aggVars>>
notAggVars == <<runnerVars, orchVars, gateVars, checksVars, stateVars, oneCheckVars, pureVars>>

\* faulty variant of IsCompleted: the completion mark is never seen
IsCompletedNever(completed, stepName) == FALSE
\* part_004:101-106
IsCompleted(completed, stepName) == stepName \in completed

\* faulty variant of MarkCompleted: the mark is not written
MarkCompletedDropped(completed, stepName) == completed
\* part_004:95-99
MarkCompleted(completed, stepName) == completed \cup {stepName}

\* faulty variant of AllIdempotent: only the first step is validated
AllIdempotentFirstOnly(steps) == steps = <<>> \/ steps[1].idempotent
\* part_004:149-153: every step must report Idempotent() == true
AllIdempotent(steps) == \A i \in 1..Len(steps) : steps[i].idempotent

\* faulty variant of GateReached: the gate is tested before the completion mark
GateReachedFirst(completed, step) == TRUE
\* part_004:165-170: the mutation gate is reached only by a step that the
\* IsCompleted test above it did not skip
GateReached(completed, step) == ~IsCompleted(completed, step.name)

\* faulty variant of MutationGated: the gate never closes
MutationGatedNever(step, allow) == FALSE
\* part_004:170: a mutating step while the runner does not allow mutations
MutationGated(step, allow) == step.mutates /\ ~allow

\* faulty variant of WithStepError: the findings returned with the error are discarded
WithStepErrorOnly(findings, err) ==
    IF err THEN <<Finding(SeverityBlock, "error")>> ELSE findings
\* part_004:180-185: a returned error becomes a Block appended to the
\* findings the step returned
WithStepError(findings, err) ==
    IF err THEN Append(findings, Finding(SeverityBlock, "error")) ELSE findings

\* faulty variant of CtxCancelled: the cancellation is never observed
CtxCancelledNever(done) == FALSE
\* part_004:157-163: the select takes the ctx.Done() case when the context
\* is cancelled at the top of the iteration
CtxCancelled(done) == done

\* part_004:126-134: NewRunner, with a State created empty or loaded from a prior run
RunnerInit ==
    /\ rSteps \in StepLists
    /\ rAllow \in BOOLEAN
    /\ rCompleted \in SUBSET StepNames
    /\ rResults = [n \in StepNames |-> NoResult]
    /\ rSummary = ZeroSummary
    /\ rErr = "nil"
    /\ rPc = "idle"
    /\ rIdx = 0
    /\ rCtxDone = FALSE
    /\ rInvoked = <<>>
    /\ rLastOut = [findings |-> <<>>, err |-> FALSE]

\* part_004:147-155: the idempotence validation that opens Run
RunnerStart ==
    /\ UNCHANGED notRunnerVars
    /\ rPc = "idle"
    /\ IF ~AllIdempotent(rSteps)
       THEN /\ rPc' = "returned"
            /\ rErr' = "config"
            /\ rIdx' = rIdx
       ELSE /\ rPc' = "loop"
            /\ rErr' = "nil"
            /\ rIdx' = 1
    /\ rSummary' = ZeroSummary
    /\ UNCHANGED <<rSteps, rAllow, rCompleted, rResults, rCtxDone, rInvoked, rLastOut>>

\* the caller cancels the context while Run is in progress
RunnerCancel ==
    /\ UNCHANGED notRunnerVars
    /\ rPc = "loop"
    /\ ~rCtxDone
    /\ rCtxDone' = TRUE
    /\ UNCHANGED <<rSteps, rAllow, rCompleted, rResults, rSummary, rErr, rPc, rIdx,
                   rInvoked, rLastOut>>

\* part_004:157-163: the select on ctx.Done() at the top of an iteration
RunnerCtxCancelled ==
    /\ UNCHANGED notRunnerVars
    /\ rPc = "loop"
    /\ rIdx <= Len(rSteps)
    /\ CtxCancelled(rCtxDone)
    /\ rPc' = "returned"
    /\ rErr' = "ctx"
    /\ UNCHANGED <<rSteps, rAllow, rCompleted, rResults, rSummary, rIdx, rCtxDone,
                   rInvoked, rLastOut>>

\* part_004:165-168
RunnerSkipCompleted ==
    /\ UNCHANGED notRunnerVars
    /\ rPc = "loop"
    /\ rIdx <= Len(rSteps)
    /\ ~CtxCancelled(rCtxDone)
    /\ IsCompleted(rCompleted, rSteps[rIdx].name)
    /\ rIdx' = rIdx + 1
    /\ UNCHANGED <<rSteps, rAllow, rCompleted, rResults, rSummary, rErr, rPc,
                   rCtxDone, rInvoked, rLastOut>>

\* part_004:170-177
RunnerMutationBlocked ==
    /\ UNCHANGED notRunnerVars
    /\ rPc = "loop"
    /\ rIdx <= Len(rSteps)
    /\ ~CtxCancelled(rCtxDone)
    /\ GateReached(rCompleted, rSteps[rIdx])
    /\ MutationGated(rSteps[rIdx], rAllow)
    /\ rResults' = [rResults EXCEPT ![rSteps[rIdx].name] =
                        StepResult(<<Finding(SeverityBlock, "gate")>>)]
    /\ rSummary' = [rSummary EXCEPT !.block = @ + 1]
    /\ rPc' = "returned"
    /\ rErr' = "nil"
    /\ UNCHANGED <<rSteps, rAllow, rCompleted, rIdx, rCtxDone, rInvoked, rLastOut>>

\* part_004:179-212: run the step, aggregate, record, halt on Block or mark
\* completed.  The context may be cancelled while the step is executing: the
\* runner does not look at it again before the next iteration.
RunnerExecute ==
    /\ UNCHANGED notRunnerVars
    /\ rPc = "loop"
    /\ rIdx <= Len(rSteps)
    /\ ~CtxCancelled(rCtxDone)
    /\ ~IsCompleted(rCompleted, rSteps[rIdx].name)
    /\ ~MutationGated(rSteps[rIdx], rAllow)
    /\ \E out \in StepOutcomes, cancelled \in BOOLEAN :
         LET findings == WithStepError(out.findings, out.err)
             blocked == BlockedBy(findings)
         IN /\ rInvoked' = Append(rInvoked, rIdx)
            /\ rLastOut' = out
            /\ rCtxDone' = (rCtxDone \/ cancelled)
            /\ rSummary' = AggregateFindings(rSummary, findings)
            /\ rResults' = [rResults EXCEPT ![rSteps[rIdx].name] = StepResult(findings)]
            /\ IF blocked
               THEN /\ rPc' = "returned"
                    /\ rErr' = "nil"
                    /\ UNCHANGED <<rCompleted, rIdx>>
               ELSE /\ rCompleted' = MarkCompleted(rCompleted, rSteps[rIdx].name)
                    /\ rIdx' = rIdx + 1
                    /\ UNCHANGED <<rPc, rErr>>
    /\ UNCHANGED <<rSteps, rAllow>>

\* part_004:214: the range loop is exhausted
RunnerFinish ==
    /\ UNCHANGED notRunnerVars
    /\ rPc = "loop"
    /\ rIdx > Len(rSteps)
    /\ rPc' = "returned"
    /\ rErr' = "nil"
    /\ UNCHANGED <<rSteps, rAllow, rCompleted, rResults, rSummary, rIdx, rCtxDone,
                   rInvoked, rLastOut>>

\* part_004:147: Run is invoked again on the same Runner and State once the
\* previous invocation has returned, with a fresh context and whatever
\* AllowMutations the caller has set in between
RunnerAgain ==
    /\ UNCHANGED notRunnerVars
    /\ rPc = "returned"
    /\ rPc' = "idle"
    /\ rAllow' \in BOOLEAN
    /\ rCtxDone' = FALSE
    /\ rInvoked' = <<>>
    /\ UNCHANGED <<rSteps, rCompleted, rResults, rSummary, rErr, rIdx, rLastOut>>

\* Step names are distinct
DistinctNames(steps) ==
    \A i \in 1..Len(steps), j \in 1..Len(steps) : steps[i].name = steps[j].name => i = j

\* part_004:126-134 and 71-79: NewRunner over distinct steps and a State
\* created empty by NewMemoryState
RunnerInitEmpty ==
    /\ RunnerInit
    /\ DistinctNames(rSteps)
    /\ rCompleted = {}

RunnerNext ==
    \/ RunnerStart
    \/ RunnerCancel
    \/ RunnerCtxCancelled
    \/ RunnerSkipCompleted
    \/ RunnerMutationBlocked
    \/ RunnerExecute
    \/ RunnerFinish

RunnerRunsNext == RunnerNext \/ RunnerAgain

(* -------------------- Replica Upgrade Orchestrator --------------------- *)
\* Strings whose content matters (host names) are tuples of characters, so
\* that strings.TrimSpace is modelled by what it does.
Space == " "

RECURSIVE TrimLeft(_)
TrimLeft(str) == IF str # <<>> /\ Head(str) = Space THEN TrimLeft(Tail(str)) ELSE str

RECURSIVE TrimRight(_)
TrimRight(str) ==
    IF str # <<>> /\ str[Len(str)] = Space
    THEN TrimRight(SubSeq(str, 1, Len(str) - 1))
    ELSE str

\* strings.TrimSpace
TrimSpace(str) == TrimRight(TrimLeft(str))

\* the replica argument of Run, as the caller writes it
RawTargets == { <<>>, <<" ">>, <<"a">>, <<" ", "a">>, <<"a", " ">>, <<"p">>, <<"p", " ">> }
OrchHosts == { TrimSpace(t) : t \in RawTargets } \ { <<>> }
\* UpgradeOrchestrator.Primary
PrimaryConfigs == { <<>>, <<"p">> }

\* part_001:126,139,152: the three phases, in order, with their checkpoint
\* field (stoppedKey, upgradedKey, resumedKey) and their action
PhaseField == <<"stopped", "upgraded", "resumed">>
PhaseAction == <<"StopReplication", "RunUpgrade", "StartReplication">>
PhaseDoneMsg == <<"replication stopped", "upgrade completed", "replication started">>
PhaseAlreadyMsg == <<"replication already stopped", "upgrade already completed",
                     "replication already started">>
PhaseFailMsg == <<"failed to stop replication", "upgrade failed",
                  "failed to start replication">>
NumPhases == 3
OrchPhases == 1..NumPhases

\* part_001:219-221: stoppedKey, upgradedKey, resumedKey
CheckpointKey(replica, ph) == <<"replica_upgrade", replica, PhaseField[ph]>>
OrchKeys == { CheckpointKey(h, ph) : h \in OrchHosts, ph \in OrchPhases }

\* faulty variant of getBool: a stored checkpoint is never read back
getBoolNever(store, key) == [b |-> FALSE, ok |-> FALSE]
\* part_001:223-233: getBool returns (value, ok); the store holds "absent",
\* "true", "false" or "other" (a value that is not a bool)
getBool(store, key) ==
    CASE store[key] = "absent" -> [b |-> FALSE, ok |-> FALSE]
      [] store[key] = "true"   -> [b |-> TRUE, ok |-> TRUE]
      [] store[key] = "false"  -> [b |-> FALSE, ok |-> TRUE]
      [] OTHER                 -> [b |-> FALSE, ok |-> FALSE]

\* faulty variant of setBool: the value is not stored
setBoolDropped(store, key, value) == store
\* part_001:235-240: setBool
setBool(store, key, value) == [store EXCEPT ![key] = IF value THEN "true" ELSE "false"]

\* faulty variant of CheckpointAfter: the checkpoint is written even when the action failed
CheckpointAlways(store, key, ok) == setBool(store, key, TRUE)
\* part_001:128-131 (and 141-144, 154-157): the checkpoint is written only
\* after the action returned no error
CheckpointAfter(store, key, ok) == IF ok THEN setBool(store, key, TRUE) ELSE store

\* faulty variant of IsPrimaryTarget: the configured primary is not compared
IsPrimaryTargetInspectorOnly(isPrimary, primary, replica) == isPrimary
\* part_001:108: the primary guard
IsPrimaryTarget(isPrimary, primary, replica) ==
    isPrimary \/ (primary # <<>> /\ replica = primary)

OFinding(sev, msg) == [sev |-> sev, msg |-> msg]

\* part_001:206-217
RECURSIVE applySummary(_, _)
applySummary(summary, findings) ==
    IF findings = <<>> THEN summary
    ELSE LET f == Head(findings)
             s == CASE f.sev = SeverityInfo  -> [summary EXCEPT !.info = @ + 1]
                    [] f.sev = SeverityWarn  -> [summary EXCEPT !.warn = @ + 1]
                    [] f.sev = SeverityBlock -> [summary EXCEPT !.block = @ + 1]
                    [] OTHER -> summary
         IN applySummary(s, Tail(findings))

\* faulty variant of hasBlock: a Warn counts as well
hasBlockOrWarn(findings) ==
    \E i \in 1..Len(findings) : findings[i].sev \in {SeverityBlock, SeverityWarn}
\* part_001:190-197
hasBlock(findings) == \E i \in 1..Len(findings) : findings[i].sev = SeverityBlock

\* faulty variant of detectPartialProgress: one stopped thread counts as stopped
detectPartialProgressAnyStopped(replica, io, sql, store) ==
    LET stopped == getBool(store, CheckpointKey(replica, 1)).b
        resumed == getBool(store, CheckpointKey(replica, 3)).b
        threadsRunning == io /\ sql
        threadsStopped == ~io \/ ~sql
        w1 == IF threadsStopped /\ ~stopped
              THEN <<OFinding(SeverityWarn, "replication appears stopped but checkpoint is missing")>>
              ELSE <<>>
        w2 == IF threadsRunning /\ stopped /\ ~resumed
              THEN <<OFinding(SeverityWarn, "checkpoint indicates replication stopped but status is running")>>
              ELSE <<>>
        w3 == IF threadsStopped /\ resumed
              THEN <<OFinding(SeverityWarn, "checkpoint indicates replication started but status is stopped")>>
              ELSE <<>>
    IN w1 \o w2 \o w3
\* part_001:168-188
detectPartialProgress(replica, io, sql, store) ==
    LET stopped == getBool(store, CheckpointKey(replica, 1)).b
        resumed == getBool(store, CheckpointKey(replica, 3)).b
        threadsRunning == io /\ sql
        threadsStopped == ~io /\ ~sql
        w1 == IF threadsStopped /\ ~stopped
              THEN <<OFinding(SeverityWarn, "replication appears stopped but checkpoint is missing")>>
              ELSE <<>>
        w2 == IF threadsRunning /\ stopped /\ ~resumed
              THEN <<OFinding(SeverityWarn, "checkpoint indicates replication stopped but status is running")>>
              ELSE <<>>
        w3 == IF threadsStopped /\ resumed
              THEN <<OFinding(SeverityWarn, "checkpoint indicates replication started but status is stopped")>>
              ELSE <<>>
    IN w1 \o w2 \o w3

\* faulty variant of DetectionFindings: a failed status read yields a Block
DetectionFindingsBlockOnError(err, replica, io, sql, store) ==
    IF err THEN <<OFinding(SeverityBlock, "unable to read replication status")>>
    ELSE detectPartialProgress(replica, io, sql, store)
\* part_001:112-120: what the status read adds to the findings: one Warn when
\* the read failed, the detection findings otherwise
DetectionFindings(err, replica, io, sql, store) ==
    IF err THEN <<OFinding(SeverityWarn, "unable to read replication status")>>
    ELSE detectPartialProgress(replica, io, sql, store)

\* a ReplicationStatus as the call log records it
StatusName(io, sql) ==
    CASE io /\ sql   -> "running"
      [] ~io /\ ~sql -> "stopped"
      [] io          -> "io_only"
      [] OTHER       -> "sql_only"

\* the invocations of Run that may be in progress: one at a time in the
\* sequential specification
OrchSlots == {1, 2}
SeqSlots == {1}

\* a recorded call: the operation, its argument and what it returned
\* ("ok", "error", the answer "true"/"false" of IsPrimary, or the status
\* ReplicationStatus reported)
LogEntry(op, arg, res) == [op |-> op, arg |-> arg, res |-> res]
IsActionEntry(e) == \E ph \in OrchPhases : e.op = PhaseAction[ph]

\* part_001:112 and 171: the local variables status and stopped before they are assigned
NoLocal == [io |-> FALSE, sql |-> FALSE, stopped |-> "absent"]

\* part_001:77-85: NewUpgradeOrchestrator with a checkpoint store created empty
OrchInit ==
    /\ oPrimary \in PrimaryConfigs
    /\ oInspectorNil \in BOOLEAN
    /\ oActionsNil \in BOOLEAN
    /\ oStore = [k \in OrchKeys |-> "absent"]
    /\ oPc = [r \in OrchSlots |-> "idle"]
    /\ oLocal = [r \in OrchSlots |-> NoLocal]
    /\ oPhase = [r \in OrchSlots |-> 0]
    /\ oReplica = [r \in OrchSlots |-> <<>>]
    /\ oSummary = [r \in OrchSlots |-> ZeroSummary]
    /\ oFindings = [r \in OrchSlots |-> <<>>]
    /\ oErr = [r \in OrchSlots |-> "nil"]
    /\ oLog = [r \in OrchSlots |-> <<>>]
    /\ oRuns = 0
    /\ oCalls = [h \in OrchHosts |-> [ph \in OrchPhases |-> 0]]
    /\ oFailures = [h \in OrchHosts |-> 0]
    /\ oRunsDone = [h \in OrchHosts |-> 0]

\* what a caller may have stored under a checkpoint key before Run is called
PreloadValues == {"absent", "true", "false", "other"}
\* part_001:77-85 and 317-320: NewUpgradeOrchestrator on a State that already
\* holds values under the checkpoint keys of replica "a"
OrchInitPreloaded ==
    /\ oPrimary = <<"p">>
    /\ oInspectorNil = FALSE
    /\ oActionsNil = FALSE
    /\ oStore \in {st \in [OrchKeys -> PreloadValues] :
                        \A k \in OrchKeys : k[2] # <<"a">> => st[k] = "absent"}
    /\ oPc = [r \in OrchSlots |-> "idle"]
    /\ oLocal = [r \in OrchSlots |-> NoLocal]
    /\ oPhase = [r \in OrchSlots |-> 0]
    /\ oReplica = [r \in OrchSlots |-> <<>>]
    /\ oSummary = [r \in OrchSlots |-> ZeroSummary]
    /\ oFindings = [r \in OrchSlots |-> <<>>]
    /\ oErr = [r \in OrchSlots |-> "nil"]
    /\ oLog = [r \in OrchSlots |-> <<>>]
    /\ oRuns = 0
    /\ oCalls = [h \in OrchHosts |-> [ph \in OrchPhases |-> 0]]
    /\ oFailures = [h \in OrchHosts |-> 0]
    /\ oRunsDone = [h \in OrchHosts |-> 0]

\* the counters of invocations and calls count up to MaxOrchRuns
Counted(n) == IF n < MaxOrchRuns THEN n + 1 ELSE n

\* the return statement of Run
OrchReturn(r, summary, findings, err) ==
    /\ oPc' = [oPc EXCEPT ![r] = "returned"]
    /\ oPhase' = [oPhase EXCEPT ![r] = 0]
    /\ oSummary' = [oSummary EXCEPT ![r] = summary]
    /\ oFindings' = [oFindings EXCEPT ![r] = findings]
    /\ oErr' = [oErr EXCEPT ![r] = err]

\* part_001:92-102: Run is called: trim the replica, reject a blank one and
\* missing collaborators
OrchBegin(r, raw) ==
    /\ UNCHANGED notOrchVars
    /\ oPc[r] \in {"idle", "returned"}
    /\ oRuns' = Counted(oRuns)
    /\ oReplica' = [oReplica EXCEPT ![r] = TrimSpace(raw)]
    /\ oLog' = [oLog EXCEPT ![r] = <<>>]
    /\ IF TrimSpace(raw) = <<>>
       THEN OrchReturn(r, [ZeroSummary EXCEPT !.block = 1],
                       <<OFinding(SeverityBlock, "replica is required")>>, "nil")
       ELSE IF oInspectorNil \/ oActionsNil
       THEN OrchReturn(r, ZeroSummary, <<>>, "config")
       ELSE /\ oPc' = [oPc EXCEPT ![r] = "primary"]
            /\ oPhase' = [oPhase EXCEPT ![r] = 0]
            /\ oSummary' = [oSummary EXCEPT ![r] = ZeroSummary]
            /\ oFindings' = [oFindings EXCEPT ![r] = <<>>]
            /\ oErr' = [oErr EXCEPT ![r] = "nil"]
    /\ UNCHANGED <<oPrimary, oInspectorNil, oActionsNil, oStore, oLocal, oCalls, oFailures,
                   oRunsDone>>

\* at most MaxOrchRuns invocations of Run in a behaviour
OrchStart(r, raw) == oRuns < MaxOrchRuns /\ OrchBegin(r, raw)

\* part_001:104-110: Inspector.IsPrimary and the primary guard
OrchCheckPrimary(r) ==
    /\ UNCHANGED notOrchVars
    /\ oPc[r] = "primary"
    /\ \E res \in {"true", "false", "error"} :
         /\ oLog' = [oLog EXCEPT ![r] = Append(@, LogEntry("IsPrimary", oReplica[r], res))]
         /\ IF res = "error"
            THEN OrchReturn(r, [ZeroSummary EXCEPT !.block = 1],
                            <<OFinding(SeverityBlock, "failed to determine primary status")>>, "nil")
            ELSE IF IsPrimaryTarget(res = "true", oPrimary, oReplica[r])
            THEN OrchReturn(r, [ZeroSummary EXCEPT !.block = 1],
                            <<OFinding(SeverityBlock, "refusing to upgrade primary")>>, "nil")
            ELSE /\ oPc' = [oPc EXCEPT ![r] = "status"]
                 /\ UNCHANGED <<oPhase, oSummary, oFindings, oErr>>
    /\ UNCHANGED <<oPrimary, oInspectorNil, oActionsNil, oStore, oLocal, oReplica, oRuns,
                   oCalls, oFailures, oRunsDone>>

\* part_001:122-124: the findings so far hold a Block, and Run returns, or
\* Run goes on to the first phase
OrchAfterDetection(r, summary, findings) ==
    IF hasBlock(findings)
    THEN OrchReturn(r, summary, findings, "nil")
    ELSE /\ oPc' = [oPc EXCEPT ![r] = "check"]
         /\ oPhase' = [oPhase EXCEPT ![r] = 1]
         /\ oSummary' = [oSummary EXCEPT ![r] = summary]
         /\ oFindings' = [oFindings EXCEPT ![r] = findings]
         /\ UNCHANGED oErr

\* part_001:112-117: Inspector.ReplicationStatus; a failed read is one Warn,
\* and the checkpoints are not looked at
OrchDetect(r) ==
    /\ UNCHANGED notOrchVars
    /\ oPc[r] = "status"
    /\ \E err \in BOOLEAN, io \in BOOLEAN, sql \in BOOLEAN :
         /\ err => (~io /\ ~sql)
         /\ oLog' = [oLog EXCEPT ![r] = Append(@, LogEntry("ReplicationStatus", oReplica[r],
                                                           IF err THEN "error"
                                                           ELSE StatusName(io, sql)))]
         /\ IF err
            THEN LET found == DetectionFindings(TRUE, oReplica[r], io, sql, oStore)
                 IN /\ OrchAfterDetection(r, applySummary(oSummary[r], found),
                                          oFindings[r] \o found)
                    /\ UNCHANGED oLocal
            ELSE /\ oLocal' = [oLocal EXCEPT ![r] = [io |-> io, sql |-> sql, stopped |-> "absent"]]
                 /\ oPc' = [oPc EXCEPT ![r] = "getStopped"]
                 /\ UNCHANGED <<oPhase, oSummary, oFindings, oErr>>
    /\ UNCHANGED <<oPrimary, oInspectorNil, oActionsNil, oStore, oReplica, oRuns,
                   oCalls, oFailures, oRunsDone>>

\* part_001:171: detectPartialProgress reads the stopped checkpoint
OrchGetStopped(r) ==
    /\ UNCHANGED notOrchVars
    /\ oPc[r] = "getStopped"
    /\ oLocal' = [oLocal EXCEPT ![r].stopped = oStore[CheckpointKey(oReplica[r], 1)]]
    /\ oPc' = [oPc EXCEPT ![r] = "getResumed"]
    /\ UNCHANGED <<oPrimary, oInspectorNil, oActionsNil, oStore, oPhase, oReplica, oSummary,
                   oFindings, oErr, oLog, oRuns, oCalls, oFailures, oRunsDone>>

\* part_001:172-187 and 118-124: detectPartialProgress reads the resumed
\* checkpoint and compares the status with the two values it has read: the
\* stopped checkpoint as it was at the earlier read, the resumed one as it
\* is now
OrchGetResumed(r) ==
    /\ UNCHANGED notOrchVars
    /\ oPc[r] = "getResumed"
    /\ LET asRead == [oStore EXCEPT ![CheckpointKey(oReplica[r], 1)] = oLocal[r].stopped]
           found == DetectionFindings(FALSE, oReplica[r], oLocal[r].io, oLocal[r].sql, asRead)
           findings == oFindings[r] \o found
       IN OrchAfterDetection(r, applySummary(oSummary[r], findings), findings)
    /\ UNCHANGED <<oPrimary, oInspectorNil, oActionsNil, oStore, oLocal, oReplica, oLog, oRuns,
                   oCalls, oFailures, oRunsDone>>

\* the position after phase ph: the next phase, or the final return (part_001:165)
OrchAdvance(r, ph, summary, findings) ==
    IF ph < NumPhases
    THEN /\ oPc' = [oPc EXCEPT ![r] = "check"]
         /\ oPhase' = [oPhase EXCEPT ![r] = ph + 1]
         /\ oSummary' = [oSummary EXCEPT ![r] = summary]
         /\ oFindings' = [oFindings EXCEPT ![r] = findings]
         /\ UNCHANGED <<oErr, oRunsDone>>
    ELSE /\ OrchReturn(r, summary, findings, "nil")
         /\ oRunsDone' = [oRunsDone EXCEPT ![oReplica[r]] = Counted(@)]

\* part_001:126,134-137 (139,147-150 and 152,160-163): read the phase's
\* checkpoint; if it is set, report the phase as already done
OrchPhaseCheck(r) ==
    /\ UNCHANGED notOrchVars
    /\ oPc[r] = "check"
    /\ LET ph == oPhase[r]
           done == getBool(oStore, CheckpointKey(oReplica[r], ph)).b
           info == OFinding(SeverityInfo, PhaseAlreadyMsg[ph])
       IN IF ~done
          THEN /\ oPc' = [oPc EXCEPT ![r] = "act"]
               /\ UNCHANGED <<oPhase, oSummary, oFindings, oErr, oRunsDone>>
          ELSE OrchAdvance(r, ph, applySummary(oSummary[r], <<info>>),
                           Append(oFindings[r], info))
    /\ UNCHANGED <<oPrimary, oInspectorNil, oActionsNil, oStore, oLocal, oReplica, oLog, oRuns,
                   oCalls, oFailures>>

\* part_001:128 (141, 154): err != nil, after which Run returns
ActionFailed(ok) == ~ok

\* part_001:127-130 (140-143 and 153-156): invoke the phase's action; on an
\* error append a Block and return, with the checkpoint left as it is
OrchPhaseAct(r) ==
    /\ UNCHANGED notOrchVars
    /\ oPc[r] = "act"
    /\ \E ok \in BOOLEAN :
         LET ph == oPhase[r]
             key == CheckpointKey(oReplica[r], ph)
             block == OFinding(SeverityBlock, PhaseFailMsg[ph])
             call == LogEntry(PhaseAction[ph], oReplica[r], IF ok THEN "ok" ELSE "error")
         IN /\ oCalls' = [oCalls EXCEPT ![oReplica[r]][ph] = Counted(@)]
            /\ oFailures' = [oFailures EXCEPT ![oReplica[r]] = IF ok THEN @ ELSE Counted(@)]
            /\ oLog' = [oLog EXCEPT ![r] = Append(@, call)]
            /\ IF ActionFailed(ok)
               THEN \* appendBlock, part_001:199-204
                    /\ OrchReturn(r, applySummary(oSummary[r], <<block>>),
                                  Append(oFindings[r], block), "nil")
                    /\ oStore' = CheckpointAfter(oStore, key, FALSE)
               ELSE /\ oPc' = [oPc EXCEPT ![r] = "set"]
                    /\ UNCHANGED <<oStore, oPhase, oSummary, oFindings, oErr>>
    /\ UNCHANGED <<oPrimary, oInspectorNil, oActionsNil, oLocal, oReplica, oRuns, oRunsDone>>

\* part_001:131-133 (144-146 and 157-159): setBool writes the checkpoint,
\* whatever the store holds under the key by now, and the phase is reported
OrchPhaseSet(r) ==
    /\ UNCHANGED notOrchVars
    /\ oPc[r] = "set"
    /\ LET ph == oPhase[r]
           key == CheckpointKey(oReplica[r], ph)
           info == OFinding(SeverityInfo, PhaseDoneMsg[ph])
       IN /\ oStore' = CheckpointAfter(oStore, key, TRUE)
          /\ oLog' = [oLog EXCEPT ![r] = Append(@, LogEntry("Set", key, "ok"))]
          /\ OrchAdvance(r, ph, applySummary(oSummary[r], <<info>>),
                         Append(oFindings[r], info))
    /\ UNCHANGED <<oPrimary, oInspectorNil, oActionsNil, oLocal, oReplica, oRuns, oCalls,
                   oFailures>>

\* Run invoked again and again, without end, for the replica "a"
OrchResumeNext ==
    \/ OrchBegin(1, <<"a">>)
    \/ OrchCheckPrimary(1)
    \/ OrchDetect(1)
    \/ OrchGetStopped(1)
    \/ OrchGetResumed(1)
    \/ OrchPhaseCheck(1)
    \/ OrchPhaseAct(1)
    \/ OrchPhaseSet(1)
\* the action of phase ph succeeds
OrchActSucceeds(ph) == OrchPhaseAct(1) /\ oPhase[1] = ph /\ oPc'[1] = "set"
\* the caller invokes Run again, Run takes its next step (IsPrimary
\* returns, with whatever answer or error), and an action that is attempted
\* again and again succeeds in the end
OrchResumeFair ==
    /\ WF_vars(OrchBegin(1, <<"a">>))
    /\ WF_vars(OrchCheckPrimary(1))
    /\ WF_vars(OrchDetect(1))
    /\ WF_vars(OrchGetStopped(1))
    /\ WF_vars(OrchGetResumed(1))
    /\ WF_vars(OrchPhaseCheck(1))
    /\ WF_vars(OrchPhaseSet(1))
    /\ \A ph \in OrchPhases : SF_vars(OrchActSucceeds(ph))

\* two invocations of Run for the replica "a", on two goroutines or in two
\* processes, sharing the checkpoint store; their steps interleave freely
OrchConcNext ==
    \E r \in OrchSlots :
        \/ OrchStart(r, <<"a">>)
        \/ OrchCheckPrimary(r)
        \/ OrchDetect(r)
        \/ OrchGetStopped(r)
        \/ OrchGetResumed(r)
        \/ OrchPhaseCheck(r)
        \/ OrchPhaseAct(r)
        \/ OrchPhaseSet(r)

OrchNext ==
    \E r \in SeqSlots :
        \/ \E raw \in RawTargets : OrchStart(r, raw)
        \/ OrchCheckPrimary(r)
        \/ OrchDetect(r)
        \/ OrchGetStopped(r)
        \/ OrchGetResumed(r)
        \/ OrchPhaseCheck(r)
        \/ OrchPhaseAct(r)
        \/ OrchPhaseSet(r)

(* ------------------- Promotion Gate and Checks Runner ------------------ *)
CheckNames == {"cdc_debezium_health", "schema_parity"}
\* a PreflightCheck as the runner sees it before running it
CheckConfigs == [name : CheckNames, readOnly : BOOLEAN]
CheckLists == SeqsUpTo(CheckConfigs, MaxChecks)

\* PromotionGate.RequiredCheckNames as configured (empty: the default applies)
RequiredConfigs == { <<>>, <<"schema_parity">>, <<"extra", "schema_parity">> }
\* promotion.go:39
DefaultRequired == <<"cdc_debezium_health", "schema_parity">>

\* configured phrases and supplied confirmations, as tuples of characters
Phrases == { <<>>, <<" ">>, <<"y">> }
Confirmations == { <<>>, <<"y">>, <<"y", " ">>, <<"n">> }

\* a checks.Finding: severity, message (a tuple of characters, as the host
\* names; a fixed text counts as one character that is not a space),
\* Meta["check"] ("" when absent) and Meta["missing"]
GFinding(sev, msg, check, missing) ==
    [sev |-> sev, msg |-> msg, check |-> check, missing |-> missing]

\* what one call of PreflightCheck.Run may return
CheckFindings ==
    SeqsUpTo({GFinding(sv, m, "", <<>>) : sv \in Severities, m \in {<<"m">>, <<>>}},
             MaxCheckFindings)
CheckOutcomes == [findings : CheckFindings, err : BOOLEAN]

\* faulty variant of WithCheckError: the findings returned with the error are discarded
WithCheckErrorOnly(checkName, findings, err) ==
    IF err THEN <<GFinding(SeverityBlock, <<"check error">>, checkName, <<>>)>> ELSE findings
\* preflight_test.go:188-195: a returned error becomes a Block, tagged with
\* the check's name, appended to the findings the check returned
WithCheckError(checkName, findings, err) ==
    IF err THEN Append(findings, GFinding(SeverityBlock, <<"check error">>, checkName, <<>>))
    ELSE findings

\* faulty variant of enforceMessages: only the empty message is replaced
RECURSIVE enforceMessagesEmptyOnly(_, _)
enforceMessagesEmptyOnly(checkName, findings) ==
    IF findings = <<>> THEN <<>>
    ELSE LET f == Head(findings)
             g == IF f.msg = <<>>
                  THEN GFinding(SeverityBlock, <<"emitted a finding without a message">>,
                                checkName, <<>>)
                  ELSE f
         IN <<g>> \o enforceMessagesEmptyOnly(checkName, Tail(findings))
\* preflight_test.go:219-233
RECURSIVE enforceMessages(_, _)
enforceMessages(checkName, findings) ==
    IF findings = <<>> THEN <<>>
    ELSE LET f == Head(findings)
             g == IF TrimSpace(f.msg) = <<>>
                  THEN GFinding(SeverityBlock, <<"emitted a finding without a message">>,
                                checkName, <<>>)
                  ELSE f
         IN <<g>> \o enforceMessages(checkName, Tail(findings))

\* faulty variant of checksApplySummary: only the first finding of a batch
\* is counted
checksApplySummaryFirstOnly(summary, findings) ==
    IF findings = <<>> THEN summary
    ELSE CASE Head(findings).sev = SeverityInfo  -> [summary EXCEPT !.info = @ + 1]
           [] Head(findings).sev = SeverityWarn  -> [summary EXCEPT !.warn = @ + 1]
           [] Head(findings).sev = SeverityBlock -> [summary EXCEPT !.block = @ + 1]
           [] OTHER -> summary
\* preflight_test.go:206-217
RECURSIVE checksApplySummary(_, _)
checksApplySummary(summary, findings) ==
    IF findings = <<>> THEN summary
    ELSE LET f == Head(findings)
             s == CASE f.sev = SeverityInfo  -> [summary EXCEPT !.info = @ + 1]
                    [] f.sev = SeverityWarn  -> [summary EXCEPT !.warn = @ + 1]
                    [] f.sev = SeverityBlock -> [summary EXCEPT !.block = @ + 1]
                    [] OTHER -> summary
         IN checksApplySummary(s, Tail(findings))

\* promotion.go:72-84
RECURSIVE missingFrom(_, _)
missingFrom(required, seen) ==
    IF required = <<>> THEN <<>>
    ELSE (IF Head(required) \in seen THEN <<>> ELSE <<Head(required)>>)
         \o missingFrom(Tail(required), seen)

\* faulty variant of missingChecks: the loop stops at the first missing name
missingChecksFirstOnly(required, checksList) ==
    LET all == missingFrom(required, {checksList[i].name : i \in 1..Len(checksList)})
    IN IF all = <<>> THEN <<>> ELSE <<Head(all)>>
missingChecks(required, checksList) ==
    missingFrom(required, {checksList[i].name : i \in 1..Len(checksList)})

\* promotion.go:37-40
RequiredOrDefault(required) == IF Len(required) = 0 THEN DefaultRequired ELSE required

\* faulty variant of ConfirmationMatches: white space is trimmed before comparing
ConfirmationMatchesTrimmed(confirmation, phrase) == TrimSpace(confirmation) = TrimSpace(phrase)
\* promotion.go:28
ConfirmationMatches(confirmation, phrase) == confirmation = phrase

\* faulty variant of GateBlocks: a Warn does not block
GateBlocksOnBlockOnly(summary) == summary.block > 0
\* promotion.go:59
GateBlocks(summary) == summary.warn > 0 \/ summary.block > 0

\* promotion.go:86-100
RECURSIVE flattenFindings(_, _)
flattenFindings(checkName, findings) ==
    IF findings = <<>> THEN <<>>
    ELSE LET f == Head(findings)
         IN <<IF f.check = "" THEN [f EXCEPT !.check = checkName] ELSE f>>
            \o flattenFindings(checkName, Tail(findings))

RECURSIVE flattenResults(_)
flattenResults(results) ==
    IF results = <<>> THEN <<>>
    ELSE flattenFindings(Head(results).checkName, Head(results).findings)
         \o flattenResults(Tail(results))

\* a PromotionGate as configured by its caller
GateInit ==
    /\ gPhrase \in Phrases
    /\ gRequired \in RequiredConfigs
    /\ gChecks \in CheckLists
    /\ gConfirmation = <<>>
    /\ gPc = "idle"
    /\ gIdx = 0
    /\ gRunSummary = ZeroSummary
    /\ gResults = <<>>
    /\ gSummary = ZeroSummary
    /\ gFindings = <<>>
    /\ gErr = "nil"
    /\ gInvoked = <<>>

GateReturn(summary, findings, err) ==
    /\ gPc' = "returned"
    /\ gSummary' = summary
    /\ gFindings' = findings
    /\ gErr' = err

\* promotion.go:21-53: Run is called: the phrase, the confirmation and the
\* required checks are validated before the Checks Runner is started
GateStart(confirmation) ==
    /\ UNCHANGED notGateVars
    /\ gPc = "idle"
    /\ gConfirmation' = confirmation
    /\ LET missing == missingChecks(RequiredOrDefault(gRequired), gChecks)
       IN IF TrimSpace(gPhrase) = <<>>
          THEN GateReturn(ZeroSummary, <<>>, "phrase") /\ UNCHANGED gIdx
          ELSE IF ~ConfirmationMatches(confirmation, gPhrase)
          THEN /\ GateReturn([ZeroSummary EXCEPT !.block = 1],
                             <<GFinding(SeverityBlock, <<"promotion requires explicit confirmation">>,
                                        "", <<>>)>>, "nil")
               /\ UNCHANGED gIdx
          ELSE IF Len(missing) > 0
          THEN /\ GateReturn([ZeroSummary EXCEPT !.block = 1],
                             <<GFinding(SeverityBlock, <<"promotion requires checks">>,
                                        "", missing)>>, "nil")
               /\ UNCHANGED gIdx
          ELSE /\ gPc' = "checks"
               /\ gIdx' = 1
               /\ UNCHANGED <<gSummary, gFindings, gErr>>
    /\ UNCHANGED <<gPhrase, gRequired, gChecks, gRunSummary, gResults, gInvoked>>

\* preflight_test.go:182-185 and promotion.go:54-56: a check that is not
\* read-only ends the Checks Runner, and the gate, with an error
GateCheckNotReadOnly ==
    /\ UNCHANGED notGateVars
    /\ gPc = "checks"
    /\ gIdx <= Len(gChecks)
    /\ ~gChecks[gIdx].readOnly
    /\ GateReturn(ZeroSummary, <<>>, "readonly")
    /\ UNCHANGED <<gPhrase, gRequired, gChecks, gConfirmation, gIdx, gRunSummary,
                   gResults, gInvoked>>

\* preflight_test.go:187-200: run one check, turn its error into a Block,
\* enforce messages, aggregate and record the Result
GateRunCheck ==
    /\ UNCHANGED notGateVars
    /\ gPc = "checks"
    /\ gIdx <= Len(gChecks)
    /\ gChecks[gIdx].readOnly
    /\ \E out \in CheckOutcomes :
         LET name == gChecks[gIdx].name
             raw == WithCheckError(name, out.findings, out.err)
             findings == enforceMessages(name, raw)
         IN /\ gInvoked' = Append(gInvoked, gIdx)
            /\ gRunSummary' = checksApplySummary(gRunSummary, findings)
            /\ gResults' = Append(gResults, [checkName |-> name, findings |-> findings])
    /\ gIdx' = gIdx + 1
    /\ UNCHANGED <<gPhrase, gRequired, gChecks, gConfirmation, gPc, gSummary, gFindings,
                   gErr>>

\* preflight_test.go:203 and promotion.go:58-69: the Checks Runner returns;
\* the gate flattens the results and blocks on any Warn or Block
GateFinish ==
    /\ UNCHANGED notGateVars
    /\ gPc = "checks"
    /\ gIdx > Len(gChecks)
    /\ LET findings == flattenResults(gResults)
           block == GFinding(SeverityBlock, <<"promotion blocked due to WARN/BLOCK findings">>,
                             "", <<>>)
       IN IF GateBlocks(gRunSummary)
          THEN GateReturn([gRunSummary EXCEPT !.block = @ + 1], Append(findings, block), "nil")
          ELSE GateReturn(gRunSummary, findings, "nil")
    /\ UNCHANGED <<gPhrase, gRequired, gChecks, gConfirmation, gIdx, gRunSummary,
                   gResults, gInvoked>>

GateNext ==
    \/ \E confirmation \in Confirmations : GateStart(confirmation)
    \/ GateCheckNotReadOnly
    \/ GateRunCheck
    \/ GateFinish

(* ------------------- Checks Runner, called directly -------------------- *)
\* The Checks Runner as the preflight command uses it (main.go:133), without
\* the gate in front of it.
\* the messages a check may write: empty, white space only, or a text
RawMessages == { <<>>, <<" ">>, <<"m">> }
RawCheckFindings ==
    SeqsUpTo({GFinding(sv, m, "", <<>>) : sv \in Severities, m \in RawMessages},
             MaxCheckFindings)
RawCheckOutcomes == [findings : RawCheckFindings, err : BOOLEAN]

\* the lists of checks given to NewRunner: up to MaxChecks checks, each
\* read-only or not, neighbours bearing different names
CheckNameAt(i) == IF i % 2 = 1 THEN "cdc_debezium_health" ELSE "schema_parity"
DirectCheckLists ==
    UNION { { [i \in 1..k |-> [name |-> CheckNameAt(i), readOnly |-> ro[i]]] :
                ro \in [1..k -> BOOLEAN] } : k \in 0..MaxChecks }

\* the three values Run returns
ChecksReturned(summary, results, resultsNil, err) ==
    [summary |-> summary, results |-> results, resultsNil |-> resultsNil, err |-> err]

\* faulty variant of ChecksAbort: the partial summary and results are returned
ChecksAbortPartial(summary, results) == ChecksReturned(summary, results, FALSE, "readonly")
\* preflight_test.go:183-185: return Summary{}, nil, error
ChecksAbort(summary, results) == ChecksReturned(ZeroSummary, <<>>, TRUE, "readonly")

\* preflight_test.go:169-174: NewRunner
ChecksInit ==
    /\ cChecks \in DirectCheckLists
    /\ cPc = "idle"
    /\ cIdx = 0
    /\ cSummary = ZeroSummary
    /\ cResults = <<>>
    /\ cInvoked = <<>>
    /\ cLastOut = [findings |-> <<>>, err |-> FALSE]
    /\ cRet = ChecksReturned(ZeroSummary, <<>>, TRUE, "nil")

\* preflight_test.go:178-181,203: Run is called; with no check to run the
\* loop is over at once and Run returns the empty summary and results
ChecksStart ==
    /\ UNCHANGED notChecksVars
    /\ cPc = "idle"
    /\ IF cChecks = <<>>
       THEN /\ cPc' = "returned"
            /\ cRet' = ChecksReturned(ZeroSummary, <<>>, FALSE, "nil")
            /\ cIdx' = cIdx
       ELSE /\ cPc' = "loop"
            /\ cIdx' = 1
            /\ cRet' = cRet
    /\ UNCHANGED <<cChecks, cSummary, cResults, cInvoked, cLastOut>>

\* preflight_test.go:182-185: a check that is not read-only ends Run
ChecksNotReadOnly ==
    /\ UNCHANGED notChecksVars
    /\ cPc = "loop"
    /\ ~cChecks[cIdx].readOnly
    /\ cPc' = "returned"
    /\ cRet' = ChecksAbort(cSummary, cResults)
    /\ UNCHANGED <<cChecks, cIdx, cSummary, cResults, cInvoked, cLastOut>>

\* preflight_test.go:187-203: run one check, turn its error into a Block,
\* enforce messages, aggregate and record the Result; after the last check
\* Run returns the summary and the results
ChecksRunCheck ==
    /\ UNCHANGED notChecksVars
    /\ cPc = "loop"
    /\ cChecks[cIdx].readOnly
    /\ \E out \in RawCheckOutcomes :
         LET name == cChecks[cIdx].name
             findings == enforceMessages(name, WithCheckError(name, out.findings, out.err))
             summary == checksApplySummary(cSummary, findings)
             results == Append(cResults, [checkName |-> name, findings |-> findings])
         IN /\ cInvoked' = Append(cInvoked, cIdx)
            /\ cLastOut' = out
            /\ cSummary' = summary
            /\ cResults' = results
            /\ IF cIdx = Len(cChecks)
               THEN /\ cPc' = "returned"
                    /\ cRet' = ChecksReturned(summary, results, FALSE, "nil")
                    /\ cIdx' = cIdx
               ELSE /\ cIdx' = cIdx + 1
                    /\ UNCHANGED <<cPc, cRet>>
    /\ UNCHANGED cChecks

ChecksNext ==
    \/ ChecksStart
    \/ ChecksNotReadOnly
    \/ ChecksRunCheck

(* ------------------- The checks and their inspectors ------------------- *)
\* a finding as a check returns it: the Checks Runner adds the check's name
KFinding(sev, msg) == GFinding(sev, msg, "", <<>>)
\* what Run returns: findings and error (<<>>: nil), the inspector calls
\* made, in order, and whether one of them returned an error
KReturn(findings, err, calls, failed) ==
    [findings |-> findings, err |-> err, calls |-> calls, failed |-> failed]
NoReturn == KReturn(<<>>, <<>>, <<>>, FALSE)

\* debezium_checks.go:53: the default of RestartLoopWindow, in minutes
RestartLoopWindowDefault == 10
\* debezium_checks.go:56: the default of RestartLoopMax
RestartLoopMaxDefault == 3

\* debezium_checks.go:52-57: a zero window or maximum is set to its default
DebeziumDefaults(cfg) ==
    [cfg EXCEPT !.loopWindow = IF @ = 0 THEN RestartLoopWindowDefault ELSE @,
                !.loopMax = IF @ = 0 THEN RestartLoopMaxDefault ELSE @]

\* faulty variant of isRestartLoop: a missing LastRestartAt is not looked at
isRestartLoopNoTimestamp(hasLast, count, elapsed, window, max) ==
    IF count < max THEN FALSE
    ELSE elapsed <= window
\* debezium_checks.go:106-114; elapsed: time.Since(*LastRestartAt), in minutes
isRestartLoop(hasLast, count, elapsed, window, max) ==
    IF ~hasLast THEN FALSE
    ELSE IF count < max THEN FALSE
    ELSE elapsed <= window

\* a finding with the Meta entries the model follows
KFindingMeta(sev, msg, meta) ==
    [sev |-> sev, msg |-> msg, check |-> "", missing |-> <<>>, meta |-> meta]

\* faulty variant of TaskFindings: it stops at the first task that is not RUNNING
RECURSIVE TaskFindingsFirstOnly(_)
TaskFindingsFirstOnly(tasks) ==
    IF tasks = <<>> THEN <<>>
    ELSE IF Head(tasks).state # "RUNNING"
    THEN <<KFindingMeta(SeverityBlock, <<"task is", Head(tasks).state>>,
                        [state |-> Head(tasks).state, trace |-> Head(tasks).trace])>>
    ELSE TaskFindingsFirstOnly(Tail(tasks))
\* debezium_checks.go:77-85: one Block for each task that is not RUNNING
RECURSIVE TaskFindings(_)
TaskFindings(tasks) ==
    IF tasks = <<>> THEN <<>>
    ELSE (IF Head(tasks).state # "RUNNING"
          THEN <<KFindingMeta(SeverityBlock, <<"task is", Head(tasks).state>>,
                              [state |-> Head(tasks).state, trace |-> Head(tasks).trace])>>
          ELSE <<>>) \o TaskFindings(Tail(tasks))

\* debezium_checks.go:45-104
DebeziumHealthCheckRun(cfg, insp) ==
    IF cfg.inspectorNil
    THEN KReturn(<<>>, <<"debezium inspector is required">>, <<>>, FALSE)
    ELSE IF cfg.nameEmpty THEN KReturn(<<>>, <<"connector name is required">>, <<>>, FALSE)
    ELSE IF insp.statusErr
    THEN KReturn(<<KFinding(SeverityBlock,
                            <<"failed to read Debezium connector status", "boom">>)>>,
                 <<>>, <<"ConnectorStatus">>, TRUE)
    ELSE LET c == DebeziumDefaults(cfg)
             state == IF insp.connState # "RUNNING"
                      THEN <<KFinding(SeverityBlock, <<"connector is", insp.connState>>)>>
                      ELSE <<>>
             loop == IF isRestartLoop(insp.hasLast, insp.restarts, insp.elapsed,
                                      c.loopWindow, c.loopMax)
                     THEN <<KFinding(SeverityBlock, <<"restart loop">>)>>
                     ELSE <<>>
             found == state \o TaskFindings(insp.tasks) \o loop
         IN KReturn(IF found = <<>>
                    THEN <<KFinding(SeverityInfo, <<"connector and tasks are RUNNING">>)>>
                    ELSE found,
                    <<>>, <<"ConnectorStatus">>, FALSE)

\* faulty variant of KafkaCalls: all three reads are made in every case
KafkaCallsAll(n) == <<"TopicExists", "TopicReadable", "SchemaHistoryTables">>
\* schema_history_checks_test.go:145, 161, 177: the reads made by a Run that
\* returns after its n-th read
KafkaCalls(n) == SubSeq(<<"TopicExists", "TopicReadable", "SchemaHistoryTables">>, 1, n)

\* schema_history_checks_test.go:137-200; tables: the outcome of
\* SchemaHistoryTables and missingTables ("err", "missing", "covered")
SchemaHistoryCheckRun(cfg, insp) ==
    LET block(msg, calls, failed) ==
            KReturn(<<KFinding(SeverityBlock, msg)>>, <<>>, calls, failed)
        one == KafkaCalls(1)
        two == KafkaCalls(2)
        three == KafkaCalls(3)
    IN IF cfg.inspectorNil
       THEN KReturn(<<>>, <<"kafka inspector is required">>, <<>>, FALSE)
       ELSE IF cfg.nameEmpty
       THEN KReturn(<<>>, <<"schema history topic is required">>, <<>>, FALSE)
       ELSE IF insp.exists = "err"
       THEN block(<<"failed to check schema history topic", "boom">>, one, TRUE)
       ELSE IF insp.exists = "false"
       THEN block(<<"schema history topic is missing">>, one, FALSE)
       ELSE IF insp.readable = "err"
       THEN block(<<"failed to read schema history topic", "boom">>, two, TRUE)
       ELSE IF insp.readable = "false"
       THEN block(<<"schema history topic is not readable">>, two, FALSE)
       ELSE IF insp.tables = "err"
       THEN block(<<"failed to read schema history coverage", "boom">>, three, TRUE)
       ELSE IF insp.tables = "missing"
       THEN block(<<"schema history missing tables">>, three, FALSE)
       ELSE KReturn(<<KFinding(SeverityInfo, <<"schema history topic is healthy">>)>>,
                    <<>>, three, FALSE)

\* schema_parity.go:7-14: a Column; Default is a pointer, <<>> when nil and
\* <<d>> when it points to d
Column(name, type, nullable, default, charset, collation) ==
    [name |-> name, type |-> type, nullable |-> nullable, default |-> default,
     charset |-> charset, collation |-> collation]
\* schema_parity.go:17-21: a Table; a Schema is the list of its tables
Table(name, columns, primaryKey) ==
    [name |-> name, columns |-> columns, primaryKey |-> primaryKey]

\* schema_parity.go:185-199: tableIndex and columnIndex, a map from each name
\* to the last entry of that name
indexByName(items) ==
    [n \in {items[i].name : i \in DOMAIN items} |->
        items[CHOOSE i \in DOMAIN items :
                /\ items[i].name = n
                /\ \A j \in DOMAIN items : items[j].name = n => j <= i]]
tableIndex(tables) == indexByName(tables)
columnIndex(cols) == indexByName(cols)
\* the orders in which a range over a map with these keys may visit them
RangeOrders(keys) ==
    {o \in [1..Cardinality(keys) -> keys] :
        \A i, j \in 1..Cardinality(keys) : o[i] = o[j] => i = j}
RECURSIVE Joined(_)
Joined(parts) == IF parts = <<>> THEN <<>> ELSE Head(parts) \o Joined(Tail(parts))

\* faulty variant of equalStrings: the order of the names is not looked at
equalStringsAnyOrder(a, b) ==
    IF Len(a) # Len(b) THEN FALSE
    ELSE {a[i] : i \in 1..Len(a)} = {b[i] : i \in 1..Len(b)}
\* schema_parity.go:201-211
equalStrings(a, b) ==
    IF Len(a) # Len(b) THEN FALSE
    ELSE \A i \in 1..Len(a) : a[i] = b[i]
\* schema_parity.go:213-221
equalDefaults(a, b) ==
    IF a = <<>> /\ b = <<>> THEN TRUE
    ELSE IF a = <<>> \/ b = <<>> THEN FALSE
    ELSE a[1] = b[1]

\* schema_parity.go:98-124
comparePrimaryKey(table, primaryPK, replicaPK) ==
    IF Len(primaryPK) = 0 /\ Len(replicaPK) = 0 THEN <<>>
    ELSE IF Len(primaryPK) = 0 /\ Len(replicaPK) > 0
    THEN <<KFindingMeta(SeverityWarn, <<"has primary key on replica but not on primary">>,
                        [table |-> table])>>
    ELSE IF Len(primaryPK) > 0 /\ Len(replicaPK) = 0
    THEN <<KFindingMeta(SeverityBlock, <<"missing primary key on replica">>,
                        [table |-> table])>>
    ELSE IF ~equalStrings(primaryPK, replicaPK)
    THEN <<KFindingMeta(SeverityBlock, <<"primary key mismatch">>,
                        [table |-> table, primary_pk |-> primaryPK,
                         replica_pk |-> replicaPK])>>
    ELSE <<>>

ColumnFinding(sev, msg, table, name) ==
    KFindingMeta(sev, <<msg>>, [table |-> table, column |-> name])
\* faulty variant of ColumnFindings: it stops at the first difference
ColumnFindingsFirstOnly(table, name, pCol, rCol) ==
    IF pCol.type # rCol.type
    THEN <<ColumnFinding(SeverityBlock, "type mismatch", table, name)>>
    ELSE IF pCol.nullable # rCol.nullable
    THEN <<ColumnFinding(SeverityWarn, "nullability differs", table, name)>>
    ELSE IF ~equalDefaults(pCol.default, rCol.default)
    THEN <<ColumnFinding(SeverityWarn, "default differs", table, name)>>
    ELSE IF pCol.collation # rCol.collation
    THEN <<ColumnFinding(SeverityWarn, "collation differs", table, name)>>
    ELSE <<>>
\* schema_parity.go:142-169: a column found on both sides
ColumnFindings(table, name, pCol, rCol) ==
    (IF pCol.type # rCol.type
     THEN <<ColumnFinding(SeverityBlock, "type mismatch", table, name)>> ELSE <<>>)
    \o (IF pCol.nullable # rCol.nullable
        THEN <<ColumnFinding(SeverityWarn, "nullability differs", table, name)>> ELSE <<>>)
    \o (IF ~equalDefaults(pCol.default, rCol.default)
        THEN <<ColumnFinding(SeverityWarn, "default differs", table, name)>> ELSE <<>>)
    \o (IF pCol.collation # rCol.collation
        THEN <<ColumnFinding(SeverityWarn, "collation differs", table, name)>> ELSE <<>>)

\* faulty variant of ExtraColumnFindings: extra columns are not reported
ExtraColumnFindingsNone(table, primaryIndex, rOrder) == <<>>
\* schema_parity.go:172-180: the second loop, visiting the replica's columns
\* in the order rOrder
ExtraColumnFindings(table, primaryIndex, rOrder) ==
    Joined([i \in 1..Len(rOrder) |->
        IF rOrder[i] \notin DOMAIN primaryIndex
        THEN <<ColumnFinding(SeverityWarn, "has extra column on replica", table, rOrder[i])>>
        ELSE <<>>])

\* schema_parity.go:126-183; pOrder and rOrder are the orders in which the
\* two loops visit the keys of primaryIndex and of replicaIndex
compareColumns(table, primaryCols, replicaCols, pOrder, rOrder) ==
    LET primaryIndex == columnIndex(primaryCols)
        replicaIndex == columnIndex(replicaCols)
    IN Joined([i \in 1..Len(pOrder) |->
            IF pOrder[i] \notin DOMAIN replicaIndex
            THEN <<ColumnFinding(SeverityBlock, "column missing on replica", table,
                                 pOrder[i])>>
            ELSE ColumnFindings(table, pOrder[i], primaryIndex[pOrder[i]],
                                replicaIndex[pOrder[i]])])
       \o ExtraColumnFindings(table, primaryIndex, rOrder)

\* the orders of one call of compareColumns
ColumnOrders(primaryCols, replicaCols) ==
    [p : RangeOrders(DOMAIN columnIndex(primaryCols)),
     r : RangeOrders(DOMAIN columnIndex(replicaCols))]
\* the orders of one call of compareSchemas: of its two loops (tp, tr) and of
\* the call of compareColumns for each table found on both sides (cols)
SchemaOrders(primary, replica) ==
    LET primaryTables == tableIndex(primary)
        replicaTables == tableIndex(replica)
        both == DOMAIN primaryTables \cap DOMAIN replicaTables
        of(n) == ColumnOrders(primaryTables[n].columns, replicaTables[n].columns)
    IN {[tp |-> tp, tr |-> tr, cols |-> c] :
            tp \in RangeOrders(DOMAIN primaryTables),
            tr \in RangeOrders(DOMAIN replicaTables),
            c \in {f \in [both -> UNION {of(n) : n \in both}] : \A n \in both : f[n] \in of(n)}}

\* schema_parity.go:65-96, with the orders ord of its loops
compareSchemas(primary, replica, ord) ==
    LET primaryTables == tableIndex(primary)
        replicaTables == tableIndex(replica)
    IN Joined([i \in 1..Len(ord.tp) |->
            LET name == ord.tp[i] IN
            IF name \notin DOMAIN replicaTables
            THEN <<KFindingMeta(SeverityBlock, <<"table missing on replica">>,
                                [table |-> name])>>
            ELSE comparePrimaryKey(name, primaryTables[name].primaryKey,
                                   replicaTables[name].primaryKey)
                 \o compareColumns(name, primaryTables[name].columns,
                                   replicaTables[name].columns,
                                   ord.cols[name].p, ord.cols[name].r)])
       \o Joined([i \in 1..Len(ord.tr) |->
            IF ord.tr[i] \notin DOMAIN primaryTables
            THEN <<KFindingMeta(SeverityWarn, <<"extra table exists on replica">>,
                                [table |-> ord.tr[i]])>>
            ELSE <<>>])

\* schema_parity.go:45-63
SchemaParityCheckRun(cfg, insp, ord) ==
    IF cfg.inspectorNil THEN KReturn(<<>>, <<"schema inspector is required">>, <<>>, FALSE)
    ELSE IF cfg.nameEmpty
    THEN KReturn(<<>>, <<"primary and replica hosts are required">>, <<>>, FALSE)
    ELSE IF insp.primary.err
    THEN KReturn(<<>>, <<"failed to read primary schema", "boom">>, <<"Schema">>, TRUE)
    ELSE IF insp.replica.err
    THEN KReturn(<<>>, <<"failed to read replica schema", "boom">>,
                 <<"Schema", "Schema">>, TRUE)
    ELSE KReturn(compareSchemas(insp.primary.tables, insp.replica.tables, ord), <<>>,
                 <<"Schema", "Schema">>, FALSE)

\* the fields of a check; loopWindow (minutes) and loopMax are those of
\* the Debezium health check, zero when left unset
CheckField(inspectorNil, nameEmpty, loopWindow, loopMax) ==
    [inspectorNil |-> inspectorNil, nameEmpty |-> nameEmpty,
     loopWindow |-> loopWindow, loopMax |-> loopMax]
CheckFields == {CheckField(n, e, 0, 0) : n \in BOOLEAN, e \in BOOLEAN}
DebeziumFields ==
    {CheckField(n, e, w, m) : n \in BOOLEAN, e \in BOOLEAN, w \in {0, 5}, m \in {0, 5}}
SchemaReads == [err : BOOLEAN, tables : {<<>>, <<Table("t", <<>>, <<>>)>>}]
NoSchema == [err |-> FALSE, tables |-> <<>>]
\* an inspector: what each of its methods returns
Inspector(statusErr, connState, tasks, hasLast, restarts, elapsed, exists, readable, tables, primary, replica) ==
    [statusErr |-> statusErr, connState |-> connState, tasks |-> tasks,
     hasLast |-> hasLast, restarts |-> restarts, elapsed |-> elapsed,
     exists |-> exists, readable |-> readable, tables |-> tables,
     primary |-> primary, replica |-> replica]
TaskStatuses == [state : {"RUNNING", "FAILED"}, trace : {"", "stacktrace"}]
DebeziumInspectors ==
    {Inspector(e, cs, ts, hl, rc, el, "false", "false", "missing", NoSchema, NoSchema) :
        e \in BOOLEAN, cs \in {"RUNNING", "PAUSED"},
        ts \in SeqsUpTo(TaskStatuses, MaxTasks),
        hl \in BOOLEAN, rc \in {2, 3, 5}, el \in {2, 10, 11}}
KafkaInspectors ==
    {Inspector(FALSE, "RUNNING", <<>>, FALSE, 0, 0, ex, rd, tb, NoSchema, NoSchema) :
        ex \in {"err", "true", "false"}, rd \in {"err", "true", "false"},
        tb \in {"err", "missing", "covered"}}
SchemaInspectors ==
    {Inspector(FALSE, "RUNNING", <<>>, FALSE, 0, 0, "false", "false", "missing", p, r) :
        p \in SchemaReads, r \in SchemaReads}

\* a check with its fields set and an inspector, before Run
OneCheckInit ==
    /\ kCheck \in {"cdc_debezium_health", "cdc_schema_history", "schema_parity"}
    /\ kCfg \in IF kCheck = "cdc_debezium_health" THEN DebeziumFields ELSE CheckFields
    /\ kInsp \in CASE kCheck = "cdc_debezium_health" -> DebeziumInspectors
                   [] kCheck = "cdc_schema_history" -> KafkaInspectors
                   [] OTHER -> SchemaInspectors
    /\ kPc = "ready"
    /\ kOut = NoReturn

OneCheckReturn(out) ==
    /\ UNCHANGED notOneCheckVars
    /\ kPc = "ready"
    /\ kOut' = out
    /\ kPc' = "returned"
    /\ UNCHANGED <<kCheck, kInsp>>

\* the defaults are stored in the check once its fields have been validated
DebeziumRun ==
    /\ kCheck = "cdc_debezium_health"
    /\ OneCheckReturn(DebeziumHealthCheckRun(kCfg, kInsp))
    /\ kCfg' = IF kCfg.inspectorNil \/ kCfg.nameEmpty THEN kCfg ELSE DebeziumDefaults(kCfg)
SchemaHistoryRun ==
    /\ kCheck = "cdc_schema_history"
    /\ OneCheckReturn(SchemaHistoryCheckRun(kCfg, kInsp))
    /\ UNCHANGED kCfg
SchemaParityRun ==
    /\ kCheck = "schema_parity"
    /\ \E ord \in SchemaOrders(kInsp.primary.tables, kInsp.replica.tables) :
         OneCheckReturn(SchemaParityCheckRun(kCfg, kInsp, ord))
    /\ UNCHANGED kCfg

OneCheckNext == DebeziumRun \/ SchemaHistoryRun \/ SchemaParityRun

(* --------------------- Checkpoint State: FileState --------------------- *)
\* the steps in use; a step's name is one character
StateSteps == {"s"}
\* file_state.go:90-92: "workflow:" + step + ":completed", as characters
completedKey(step) ==
    <<"w", "o", "r", "k", "f", "l", "o", "w", ":">> \o <<step>>
        \o <<":", "c", "o", "m", "p", "l", "e", "t", "e", "d">>
\* the keys in use: one plain key, and the key of a step's completion mark
StateKeys == {<<"k">>} \cup {completedKey(st) : st \in StateSteps}

\* values given to Set: a bool, an int, and a value encoding/json cannot
\* encode (a channel)
SetValues == {"true", "int", "chan"}
\* a map[string]interface{}: a function of the keys in use, "absent" for a
\* key the map does not hold, and of every other key the map holds
EmptyMap == [k \in StateKeys |-> "absent"]
Present(data) == {k \in DOMAIN data : data[k] # "absent"}

\* the bytes of the file, each a string; NUL is the byte of a hole, which a
\* write beyond the end of the file leaves
NUL == "NUL"
LF == "\n"
Quote == "\""
\* the bytes that occur, in their order as bytes
ByteOrder ==
    <<NUL, LF, " ", Quote, ",", "1", ":", "c", "d", "e", "f", "k", "l", "m", "o", "p",
      "r", "s", "t", "u", "w", "{", "}">>
ByteCode(c) == CHOOSE n \in 1..Len(ByteOrder) : ByteOrder[n] = c
\* encoding/json writes the keys of a map sorted as strings
KeyLess(a, b) ==
    \E n \in 1..Len(b) :
        /\ \A j \in 1..(n - 1) : j <= Len(a) /\ a[j] = b[j]
        /\ (n > Len(a) \/ ByteCode(a[n]) < ByteCode(b[n]))
RECURSIVE SortedKeys(_)
SortedKeys(keys) ==
    IF keys = {} THEN <<>>
    ELSE LET first == CHOOSE x \in keys : \A y \in keys \ {x} : KeyLess(x, y)
         IN <<first>> \o SortedKeys(keys \ {first})

\* json.MarshalIndent of a map[string]interface{} (file_state.go:83): a bool
\* stays a bool, a Go number is written as a JSON number (Set is given 1),
\* a channel is an error
JSONOf(v) == IF v = "true" THEN <<"t", "r", "u", "e">> ELSE <<"1">>
Marshalable(data) == \A k \in DOMAIN data : data[k] # "chan"
MarshalLine(key, v) == <<" ", " ", Quote>> \o key \o <<Quote, ":", " ">> \o JSONOf(v)
RECURSIVE MarshalLines(_, _)
MarshalLines(data, keys) ==
    IF keys = <<>> THEN <<>>
    ELSE MarshalLine(Head(keys), data[Head(keys)])
         \o (IF Len(keys) > 1 THEN <<",", LF>> ELSE <<>>)
         \o MarshalLines(data, Tail(keys))
Marshal(data) ==
    IF Present(data) = {} THEN <<"{", "}">>
    ELSE <<"{", LF>> \o MarshalLines(data, SortedKeys(Present(data))) \o <<LF, "}">>

\* json.Unmarshal (file_state.go:76) of the bytes of the file into the empty
\* map of a new FileState: the bytes must be one JSON object and white space
\* around it; its values are true or a number (the bytes that occur make no
\* other value), a JSON number becomes a float64, of a key written twice
\* the last value stays
NoJSON == [ok |-> FALSE, data |-> EmptyMap]
ByteAt(b, i) == IF i <= Len(b) THEN b[i] ELSE "EOF"
RECURSIVE SkipSpace(_, _)
SkipSpace(b, i) == IF ByteAt(b, i) \in {" ", LF} THEN SkipSpace(b, i + 1) ELSE i
\* the index of the quote that ends the string whose bytes start at i, or 0:
\* a string holds no control character
RECURSIVE StringEnd(_, _)
StringEnd(b, i) ==
    IF ByteAt(b, i) \in {"EOF", NUL, LF} THEN 0
    ELSE IF b[i] = Quote THEN i
    ELSE StringEnd(b, i + 1)
RECURSIVE DigitsEnd(_, _)
DigitsEnd(b, i) == IF ByteAt(b, i) = "1" THEN DigitsEnd(b, i + 1) ELSE i
\* a number: digits, and an exponent of digits after them or none
NumberEnd(b, i) ==
    LET j == DigitsEnd(b, i)
    IN IF ByteAt(b, j) # "e" THEN j
       ELSE IF ByteAt(b, j + 1) = "1" THEN DigitsEnd(b, j + 1)
       ELSE 0
GoOf(b, i) ==
    IF i + 3 <= Len(b) /\ SubSeq(b, i, i + 3) = <<"t", "r", "u", "e">>
    THEN [ok |-> TRUE, v |-> "true", next |-> i + 4]
    ELSE IF ByteAt(b, i) = "1" /\ NumberEnd(b, i) # 0
    THEN [ok |-> TRUE, v |-> "float64", next |-> NumberEnd(b, i)]
    ELSE [ok |-> FALSE, v |-> "absent", next |-> i]
UnmarshalEnd(b, i, data) ==
    IF SkipSpace(b, i) = Len(b) + 1 THEN [ok |-> TRUE, data |-> data] ELSE NoJSON
RECURSIVE UnmarshalMembers(_, _, _)
UnmarshalMembers(b, i, data) ==
    LET e == StringEnd(b, i + 1)
        colon == SkipSpace(b, e + 1)
        val == GoOf(b, SkipSpace(b, colon + 1))
        after == SkipSpace(b, val.next)
        with == (SubSeq(b, i + 1, e - 1) :> val.v) @@ data
    IN IF ByteAt(b, i) # Quote \/ e = 0 THEN NoJSON
       ELSE IF ByteAt(b, colon) # ":" \/ ~val.ok THEN NoJSON
       ELSE IF ByteAt(b, after) = "," THEN UnmarshalMembers(b, SkipSpace(b, after + 1), with)
       ELSE IF ByteAt(b, after) = "}" THEN UnmarshalEnd(b, after + 1, with)
       ELSE NoJSON
Unmarshal(b) ==
    LET open == SkipSpace(b, 1)
        first == SkipSpace(b, open + 1)
    IN IF ByteAt(b, open) # "{" THEN NoJSON
       ELSE IF ByteAt(b, first) = "}" THEN UnmarshalEnd(b, first + 1, EmptyMap)
       ELSE UnmarshalMembers(b, first, EmptyMap)

\* the file at the path: not there, or there with its bytes
FileMissing == [exists |-> FALSE, bytes |-> <<>>]
FileWith(bytes) == [exists |-> TRUE, bytes |-> bytes]

\* a write of the bytes at the offset of the file descriptor
\* (file_state.go:87): the offset is the descriptor's own, so that after
\* another writer has truncated the file the bytes leave a hole before them
RECURSIVE Hole(_)
Hole(n) == IF n <= 0 THEN <<>> ELSE <<NUL>> \o Hole(n - 1)
WriteAt(old, off, bytes) ==
    LET padded == old \o Hole(off - Len(old))
    IN SubSeq(padded, 1, off) \o bytes \o SubSeq(padded, off + Len(bytes) + 1, Len(padded))

\* file_state.go:30-35: Get returns (value, ok)
GetOf(data, key) == [v |-> data[key], ok |-> data[key] # "absent"]
\* file_state.go:51-60: IsCompleted
IsCompletedOf(data, step) == data[completedKey(step)] = "true"

FileInstances == {"f1", "f2"}
StateObjects == FileInstances \cup {"m"}
StateThreads == {1, 2}
OneThread == {1}

\* a call on a State: the object, the method and its arguments
StateCall(inst, op, key, step, value) ==
    [inst |-> inst, op |-> op, key |-> key, step |-> step, value |-> value]
NoCall == StateCall("none", "none", <<>>, "", "absent")
IsWrite(call) == call.op \in {"Set", "MarkCompleted"}
CallsOn(inst, keys, values) ==
    {StateCall(inst, "Set", k, "", v) : k \in keys, v \in values}
    \cup {StateCall(inst, "MarkCompleted", <<>>, st, "absent") : st \in StateSteps}
    \cup {StateCall(inst, "Get", k, "", "absent") : k \in keys}
    \cup {StateCall(inst, "IsCompleted", <<>>, st, "absent") : st \in StateSteps}

\* file_state.go:40 and 47: the assignment Set and MarkCompleted make
FileApply(data, call) ==
    IF call.op = "Set" THEN [data EXCEPT ![call.key] = call.value]
    ELSE [data EXCEPT ![completedKey(call.step)] = "true"]

\* faulty variant of LockFree: the mutex excludes nobody
LockFreeAlways(holder) == TRUE
\* sync.Mutex.Lock returns when no thread holds the mutex
LockFree(holder) == holder = 0

\* part_004:75-80 and no file yet: NewMemoryState, no FileState opened
StateInit ==
    /\ sFile = FileMissing
    /\ sOpen = [i \in FileInstances |-> "no"]
    /\ sBuf = [i \in FileInstances |-> <<>>]
    /\ sData = [i \in FileInstances |-> EmptyMap]
    /\ sMu = [i \in FileInstances |-> 0]
    /\ sBase = [i \in FileInstances |-> EmptyMap]
    /\ sDone = [o \in StateObjects |-> <<>>]
    /\ sFailed = [i \in FileInstances |-> FALSE]
    /\ mValues = EmptyMap
    /\ mCompleted = {}
    /\ mWriter = 0
    /\ mReaders = {}
    /\ tPc = [t \in StateThreads |-> "idle"]
    /\ tCall = [t \in StateThreads |-> NoCall]
    /\ tBytes = [t \in StateThreads |-> <<>>]
    /\ tOff = [t \in StateThreads |-> 0]
    /\ tWrites = [t \in StateThreads |-> 0]
    /\ tRet = [t \in StateThreads |-> [v |-> "absent", ok |-> FALSE]]
    /\ tCalls = 0

IsOpen(i) == sOpen[i] = "open"

\* the paths NewFileState is given: none, or the path of the state file
OpenPaths == {<<>>, <<"f">>}

\* file_state.go:19-24 and 62-68: NewFileState refuses an empty path;
\* otherwise it makes the instance with an empty map and load calls
\* os.Stat: the file is not there and load goes on to persist, or it is
\* there and load goes on to read it, or os.Stat fails otherwise and
\* NewFileState returns the error
FileOpen(i) ==
    /\ UNCHANGED notStateVars
    /\ sOpen[i] \in {"no", "failed"}
    /\ \E path \in OpenPaths, statOk \in BOOLEAN :
         sOpen' = [sOpen EXCEPT ![i] = IF path = <<>> \/ ~statOk THEN "failed"
                                       ELSE IF ~sFile.exists THEN "create"
                                       ELSE "read"]
    /\ sData' = [sData EXCEPT ![i] = EmptyMap]
    /\ sBase' = [sBase EXCEPT ![i] = EmptyMap]
    /\ sDone' = [sDone EXCEPT ![i] = <<>>]
    /\ sFailed' = [sFailed EXCEPT ![i] = FALSE]
    /\ UNCHANGED <<sFile, sBuf, sMu, mValues, mCompleted, mWriter, mReaders, tPc, tCall,
                   tBytes, tOff, tWrites, tRet, tCalls>>

\* file_state.go:65 and 79-87: persist called by load: os.MkdirAll, and
\* os.WriteFile opens the file with O_CREATE and O_TRUNC, so that a file
\* another instance has made since os.Stat is emptied; an error is returned
FileOpenCreate(i) ==
    /\ UNCHANGED notStateVars
    /\ sOpen[i] = "create"
    /\ \E ioOk \in BOOLEAN :
         /\ sFile' = IF ioOk THEN FileWith(<<>>) ELSE sFile
         /\ sOpen' = [sOpen EXCEPT ![i] = IF ioOk THEN "write" ELSE "failed"]
    /\ UNCHANGED <<sBuf, sData, sMu, sBase, sDone, sFailed, mValues, mCompleted, mWriter,
                   mReaders, tPc, tCall, tBytes, tOff, tWrites, tRet, tCalls>>

\* file_state.go:87 and 24-27: os.WriteFile writes the two bytes of the
\* empty map, n of those left at a time ("writing": one is written), and
\* closes the file after the last of them; a write that fails (n = 0), or
\* a Close that fails with both bytes in the file, makes persist, load and
\* NewFileState return the error, and no FileState is had
FileOpenWrite(i) ==
    /\ UNCHANGED notStateVars
    /\ sOpen[i] \in {"write", "writing"}
    /\ LET bytes == Marshal(EmptyMap)
           off == IF sOpen[i] = "write" THEN 0 ELSE 1
           left == Len(bytes) - off
       IN \E n \in 0..left, closeOk \in BOOLEAN :
            /\ (0 < n /\ n < left) => 1 < MaxWrites
            /\ sFile' = IF n = 0 THEN sFile
                        ELSE FileWith(WriteAt(sFile.bytes, off, SubSeq(bytes, off + 1, off + n)))
            /\ sOpen' = [sOpen EXCEPT ![i] = IF n = 0 THEN "failed"
                                              ELSE IF n < left THEN "writing"
                                              ELSE IF closeOk THEN "open"
                                              ELSE "failed"]
    /\ UNCHANGED <<sBuf, sData, sMu, sBase, sDone, sFailed, mValues, mCompleted, mWriter,
                   mReaders, tPc, tCall, tBytes, tOff, tWrites, tRet, tCalls>>

\* file_state.go:69-76 and 24-27: os.ReadFile reads what the file holds
\* beyond the bytes it has read, until a read finds nothing more; then no
\* bytes leave the map empty, and json.Unmarshal fills it from the bytes
\* otherwise; an error of either makes NewFileState return the error
FileOpenRead(i) ==
    /\ UNCHANGED notStateVars
    /\ sOpen[i] = "read"
    /\ \E ioOk \in BOOLEAN :
         LET more == SubSeq(sFile.bytes, Len(sBuf[i]) + 1, Len(sFile.bytes))
             got == IF sBuf[i] = <<>> THEN [ok |-> TRUE, data |-> EmptyMap]
                    ELSE Unmarshal(sBuf[i])
         IN IF ioOk /\ more # <<>>
            THEN /\ sBuf' = [sBuf EXCEPT ![i] = @ \o more]
                 /\ UNCHANGED <<sOpen, sData, sBase>>
            ELSE /\ sBuf' = [sBuf EXCEPT ![i] = <<>>]
                 /\ sOpen' = [sOpen EXCEPT ![i] = IF ioOk /\ got.ok THEN "open" ELSE "failed"]
                 /\ sData' = [sData EXCEPT ![i] = IF ioOk /\ got.ok THEN got.data ELSE @]
                 /\ sBase' = [sBase EXCEPT ![i] = IF ioOk /\ got.ok THEN got.data ELSE @]
    /\ UNCHANGED <<sFile, sMu, sDone, sFailed, mValues, mCompleted, mWriter, mReaders,
                   tPc, tCall, tBytes, tOff, tWrites, tRet, tCalls>>

\* NewFileState from its call to its return
FileOpening(i) == FileOpen(i) \/ FileOpenCreate(i) \/ FileOpenWrite(i) \/ FileOpenRead(i)

\* a thread calls a method of a State
StateBegin(t, call) ==
    /\ UNCHANGED notStateVars
    /\ tPc[t] = "idle"
    /\ tCalls < MaxStateCalls
    /\ call.inst \in FileInstances => IsOpen(call.inst)
    /\ tPc' = [tPc EXCEPT ![t] = "lock"]
    /\ tCall' = [tCall EXCEPT ![t] = call]
    /\ tCalls' = tCalls + 1
    /\ UNCHANGED <<sFile, sOpen, sBuf, sData, sMu, sBase, sDone, sFailed, mValues, mCompleted,
                   mWriter, mReaders, tBytes, tOff, tWrites, tRet>>

\* file_state.go:31,38,45,52: s.mu.Lock()
FileLock(t) ==
    /\ UNCHANGED notStateVars
    /\ tPc[t] = "lock"
    /\ tCall[t].inst \in FileInstances
    /\ LockFree(sMu[tCall[t].inst])
    /\ sMu' = [sMu EXCEPT ![tCall[t].inst] = t]
    /\ tPc' = [tPc EXCEPT ![t] = "body"]
    /\ UNCHANGED <<sFile, sOpen, sBuf, sData, sBase, sDone, sFailed, mValues, mCompleted,
                   mWriter, mReaders, tCall, tBytes, tOff, tWrites, tRet, tCalls>>

\* file_state.go:33-34, 40, 47, 54-59: the body of the method, up to persist
FileBody(t) ==
    /\ UNCHANGED notStateVars
    /\ tPc[t] = "body"
    /\ tCall[t].inst \in FileInstances
    /\ LET call == tCall[t]
           data == sData[call.inst]
       IN CASE IsWrite(call) ->
                 /\ sData' = [sData EXCEPT ![call.inst] = FileApply(data, call)]
                 /\ tPc' = [tPc EXCEPT ![t] = "marshal"]
                 /\ UNCHANGED tRet
            [] call.op = "Get" ->
                 /\ tRet' = [tRet EXCEPT ![t] = GetOf(data, call.key)]
                 /\ tPc' = [tPc EXCEPT ![t] = "unlock"]
                 /\ UNCHANGED sData
            [] OTHER ->
                 /\ tRet' = [tRet EXCEPT ![t] =
                                [v |-> "absent", ok |-> IsCompletedOf(data, call.step)]]
                 /\ tPc' = [tPc EXCEPT ![t] = "unlock"]
                 /\ UNCHANGED sData
    /\ UNCHANGED <<sFile, sOpen, sBuf, sMu, sBase, sDone, sFailed, mValues, mCompleted,
                   mWriter, mReaders, tCall, tBytes, tOff, tWrites, tCalls>>

\* file_state.go:79-86: persist calls os.MkdirAll and encodes the whole map;
\* an error of either is returned to Set or MarkCompleted, which drop it
\* (file_state.go:41,48)
FileMarshal(t) ==
    /\ UNCHANGED notStateVars
    /\ tPc[t] = "marshal"
    /\ \E dirOk \in BOOLEAN :
         LET i == tCall[t].inst
         IN IF dirOk /\ Marshalable(sData[i])
            THEN /\ tBytes' = [tBytes EXCEPT ![t] = Marshal(sData[i])]
                 /\ tPc' = [tPc EXCEPT ![t] = "truncate"]
                 /\ UNCHANGED sFailed
            ELSE /\ sFailed' = [sFailed EXCEPT ![i] = TRUE]
                 /\ tPc' = [tPc EXCEPT ![t] = "unlock"]
                 /\ UNCHANGED tBytes
    /\ UNCHANGED <<sFile, sOpen, sBuf, sData, sMu, sBase, sDone, mValues, mCompleted,
                   mWriter, mReaders, tCall, tOff, tWrites, tRet, tCalls>>

\* persist returns: its bytes and the file descriptor are gone
PersistReturns(t) ==
    /\ tPc' = [tPc EXCEPT ![t] = "unlock"]
    /\ tBytes' = [tBytes EXCEPT ![t] = <<>>]
    /\ tOff' = [tOff EXCEPT ![t] = 0]
    /\ tWrites' = [tWrites EXCEPT ![t] = 0]

\* file_state.go:87: os.WriteFile opens the file with O_TRUNC, which empties
\* it; an error of the open is returned to Set or MarkCompleted, which drop it
FileTruncate(t) ==
    /\ UNCHANGED notStateVars
    /\ tPc[t] = "truncate"
    /\ \E ioOk \in BOOLEAN :
         IF ioOk
         THEN /\ sFile' = FileWith(<<>>)
              /\ tPc' = [tPc EXCEPT ![t] = "write"]
              /\ UNCHANGED <<sFailed, tBytes, tOff, tWrites>>
         ELSE /\ sFailed' = [sFailed EXCEPT ![tCall[t].inst] = TRUE]
              /\ PersistReturns(t)
              /\ UNCHANGED sFile
    /\ UNCHANGED <<sOpen, sBuf, sData, sMu, sBase, sDone, mValues, mCompleted,
                   mWriter, mReaders, tCall, tRet, tCalls>>

\* file_state.go:87: os.WriteFile writes the bytes, n of those left at a
\* time and in no more than MaxWrites writes, and the file is not locked
\* meanwhile; a write that fails (n = 0) ends it, and after the last write
\* the file is closed.  The error of the write, or else that of Close, which
\* leaves the bytes written in the file, is returned by persist to Set or
\* MarkCompleted, which drop it
FileWrite(t) ==
    /\ UNCHANGED notStateVars
    /\ tPc[t] = "write"
    /\ LET left == Len(tBytes[t]) - tOff[t]
       IN \E n \in 0..left, closeOk \in BOOLEAN :
            /\ (0 < n /\ n < left) => tWrites[t] + 1 < MaxWrites
            /\ sFile' = IF n = 0 THEN sFile
                        ELSE FileWith(WriteAt(sFile.bytes, tOff[t],
                                              SubSeq(tBytes[t], tOff[t] + 1, tOff[t] + n)))
            /\ sFailed' = [sFailed EXCEPT ![tCall[t].inst] =
                              @ \/ n = 0 \/ (n = left /\ ~closeOk)]
            /\ IF 0 < n /\ n < left
               THEN /\ tOff' = [tOff EXCEPT ![t] = @ + n]
                    /\ tWrites' = [tWrites EXCEPT ![t] = @ + 1]
                    /\ UNCHANGED <<tPc, tBytes>>
               ELSE PersistReturns(t)
    /\ UNCHANGED <<sOpen, sBuf, sData, sMu, sBase, sDone, mValues, mCompleted,
                   mWriter, mReaders, tCall, tRet, tCalls>>

\* file_state.go:32,39,46,53: the deferred s.mu.Unlock(), and the return
FileUnlock(t) ==
    /\ UNCHANGED notStateVars
    /\ tPc[t] = "unlock"
    /\ tCall[t].inst \in FileInstances
    /\ sMu' = [sMu EXCEPT ![tCall[t].inst] = 0]
    /\ sDone' = [sDone EXCEPT ![tCall[t].inst] =
                    IF IsWrite(tCall[t]) THEN Append(@, tCall[t]) ELSE @]
    /\ tPc' = [tPc EXCEPT ![t] = "idle"]
    /\ UNCHANGED <<sFile, sOpen, sBuf, sData, sBase, sFailed, mValues, mCompleted,
                   mWriter, mReaders, tCall, tBytes, tOff, tWrites, tRet, tCalls>>

(* -------------------- Checkpoint State: MemoryState -------------------- *)
\* part_004:82-106: Get and IsCompleted take the read lock, Set and
\* MarkCompleted the write lock
MemLock(t) ==
    /\ UNCHANGED notStateVars
    /\ tPc[t] = "lock"
    /\ tCall[t].inst = "m"
    /\ LockFree(mWriter)
    /\ IF IsWrite(tCall[t])
       THEN /\ LockFree(Cardinality(mReaders))
            /\ mWriter' = t
            /\ UNCHANGED mReaders
       ELSE /\ mReaders' = mReaders \cup {t}
            /\ UNCHANGED mWriter
    /\ tPc' = [tPc EXCEPT ![t] = "body"]
    /\ UNCHANGED <<sFile, sOpen, sBuf, sData, sMu, sBase, sDone, sFailed, mValues, mCompleted,
                   tCall, tBytes, tOff, tWrites, tRet, tCalls>>

\* part_004:85-86, 92, 98, 104-105: the body of the method
MemBody(t) ==
    /\ UNCHANGED notStateVars
    /\ tPc[t] = "body"
    /\ tCall[t].inst = "m"
    /\ LET call == tCall[t]
       IN CASE call.op = "Set" ->
                 /\ mValues' = [mValues EXCEPT ![call.key] = call.value]
                 /\ UNCHANGED <<mCompleted, tRet>>
            [] call.op = "MarkCompleted" ->
                 /\ mCompleted' = MarkCompleted(mCompleted, call.step)
                 /\ UNCHANGED <<mValues, tRet>>
            [] call.op = "Get" ->
                 /\ tRet' = [tRet EXCEPT ![t] = GetOf(mValues, call.key)]
                 /\ UNCHANGED <<mValues, mCompleted>>
            [] OTHER ->
                 /\ tRet' = [tRet EXCEPT ![t] =
                                [v |-> "absent", ok |-> IsCompleted(mCompleted, call.step)]]
                 /\ UNCHANGED <<mValues, mCompleted>>
    /\ tPc' = [tPc EXCEPT ![t] = "unlock"]
    /\ UNCHANGED <<sFile, sOpen, sBuf, sData, sMu, sBase, sDone, sFailed, mWriter, mReaders,
                   tCall, tBytes, tOff, tWrites, tCalls>>

\* part_004:84, 91, 97, 103: the deferred Unlock or RUnlock, and the return
MemUnlock(t) ==
    /\ UNCHANGED notStateVars
    /\ tPc[t] = "unlock"
    /\ tCall[t].inst = "m"
    /\ IF IsWrite(tCall[t])
       THEN mWriter' = 0 /\ UNCHANGED mReaders
       ELSE mReaders' = mReaders \ {t} /\ UNCHANGED mWriter
    /\ sDone' = [sDone EXCEPT !["m"] = IF IsWrite(tCall[t]) THEN Append(@, tCall[t]) ELSE @]
    /\ tPc' = [tPc EXCEPT ![t] = "idle"]
    /\ UNCHANGED <<sFile, sOpen, sBuf, sData, sMu, sBase, sFailed, mValues, mCompleted,
                   tCall, tBytes, tOff, tWrites, tRet, tCalls>>

\* one process: it opens the FileState, calls it, and a FileState opened
\* on the same path afterwards is read
SeqFileCalls ==
    CallsOn("f1", StateKeys, SetValues)
    \cup {c \in CallsOn("f2", StateKeys, SetValues) : ~IsWrite(c)}
\* NewFileState is not in progress, for any instance
NoneOpening == \A i \in FileInstances : sOpen[i] \in {"no", "failed", "open"}
FileSeqNext ==
    \/ \E i \in FileInstances :
        /\ \A t \in OneThread : tPc[t] = "idle"
        /\ \A j \in FileInstances \ {i} : sOpen[j] \in {"no", "failed", "open"}
        /\ FileOpening(i)
    \/ \E t \in OneThread :
        /\ NoneOpening
        /\ \/ \E call \in SeqFileCalls : StateBegin(t, call)
           \/ FileLock(t)
           \/ FileBody(t)
           \/ FileMarshal(t)
           \/ FileTruncate(t)
           \/ FileWrite(t)
           \/ FileUnlock(t)

\* one thread calling a FileState and a MemoryState, on plain keys and on
\* the key that FileState gives to a step's completion mark
PairCalls ==
    CallsOn("f1", StateKeys, {"true", "int"}) \cup CallsOn("m", StateKeys, {"true", "int"})
StatePairNext ==
    \/ FileOpening("f1")
    \/ \E t \in OneThread :
        \/ \E call \in PairCalls : StateBegin(t, call)
        \/ FileLock(t)
        \/ FileBody(t)
        \/ FileMarshal(t)
        \/ FileTruncate(t)
        \/ FileWrite(t)
        \/ FileUnlock(t)
        \/ MemLock(t)
        \/ MemBody(t)
        \/ MemUnlock(t)

\* two processes, each with a FileState of its own opened on the same path:
\* one marks a step completed, the other sets a key, each any number of times
TwoFileCalls ==
    {StateCall("f1", "MarkCompleted", <<>>, "s", "absent"),
     StateCall("f2", "Set", <<"k">>, "", "true")}
\* each thread is a process with a FileState of its own
InstanceOf(t) == IF t = 1 THEN "f1" ELSE "f2"
TwoFilesNext ==
    \/ \E i \in FileInstances : FileOpening(i)
    \/ \E t \in StateThreads :
        \/ \E call \in TwoFileCalls :
              call.inst = InstanceOf(t) /\ StateBegin(t, call)
        \/ FileLock(t)
        \/ FileBody(t)
        \/ FileMarshal(t)
        \/ FileTruncate(t)
        \/ FileWrite(t)
        \/ FileUnlock(t)

\* two threads sharing one FileState and one MemoryState, each calling
\* Set, MarkCompleted, Get and IsCompleted of either
ConcCalls ==
    CallsOn("f1", {<<"k">>}, {"true", "int"}) \cup CallsOn("m", {<<"k">>}, {"true"})
StateConcNext ==
    \/ FileOpening("f1")
    \/ \E t \in StateThreads :
        \/ \E call \in ConcCalls : StateBegin(t, call)
        \/ FileLock(t)
        \/ FileBody(t)
        \/ FileMarshal(t)
        \/ FileTruncate(t)
        \/ FileWrite(t)
        \/ FileUnlock(t)
        \/ MemLock(t)
        \/ MemBody(t)
        \/ MemUnlock(t)

(* ------------------------- Functions on values ------------------------- *)
\* a function is called once on arguments fixed beforehand
PureInit(fn, inputs) ==
    /\ pFn = fn
    /\ pIn \in inputs
    /\ pOut = <<>>
    /\ pPc = "ready"

PureApply(fn, result) ==
    /\ UNCHANGED notPureVars
    /\ pPc = "ready"
    /\ pFn = fn
    /\ pOut' = <<result>>
    /\ pPc' = "returned"
    /\ UNCHANGED <<pFn, pIn>>

\* strings.ToLower on the letters in use
LowerOf(ch) ==
    CASE ch = "A" -> "a"
      [] ch = "B" -> "b"
      [] OTHER -> ch
\* faulty variant of ToLower: the case is kept
ToLowerNone(str) == str
ToLower(str) == [i \in 1..Len(str) |-> LowerOf(str[i])]

\* schema_history_checks_test.go:208,212: the key a table name is compared by
TableKey(name) == ToLower(TrimSpace(name))

\* schema_history_checks_test.go:210-219: the expected names, as written,
\* that are not blank and whose key is not among the covered keys
RECURSIVE MissingOf(_, _)
MissingOf(expected, coveredSet) ==
    IF expected = <<>> THEN <<>>
    ELSE LET key == TableKey(Head(expected))
         IN (IF key # <<>> /\ key \notin coveredSet THEN <<Head(expected)>> ELSE <<>>)
            \o MissingOf(Tail(expected), coveredSet)

\* schema_history_checks_test.go:202-221
missingTables(expected, covered) ==
    IF Len(expected) = 0 THEN <<>>
    ELSE MissingOf(expected, {TableKey(covered[i]) : i \in 1..Len(covered)})

\* schema_history_checks_test.go:186-199: the finding Run returns from the
\* covered tables
CoverageFindings(expected, covered) ==
    LET missing == missingTables(expected, covered)
    IN IF Len(missing) > 0
       THEN <<GFinding(SeverityBlock, <<"schema history missing tables">>, "", missing)>>
       ELSE <<KFinding(SeverityInfo, <<"schema history topic is healthy">>)>>

\* table names as ExpectedTables and the inspector spell them
TableSpellings == {<<>>, <<" ">>, <<"a">>, <<"A">>, <<"a", " ">>, <<"b">>, <<" ", "B">>}
CoverageInputs ==
    [expected : SeqsUpTo(TableSpellings, MaxTables),
     covered : SeqsUpTo(TableSpellings, MaxTables)]
CoverageInit == PureInit("missingTables", CoverageInputs)
CoverageApply ==
    PureApply("missingTables", CoverageFindings(pIn.expected, pIn.covered))

\* part_005:36-43: SupportedSteps, a name being one token
SupportedSteps ==
    << <<"preflight">>, <<"upgrade_replica">>, <<"validate_replica">>, <<"cdc_check">>,
       <<"promote">>, <<"post_validation">> >>
\* part_005:137-143: supportedStepOrder, positions counted from zero
StepKnown(step) == \E i \in 1..Len(SupportedSteps) : SupportedSteps[i] = step
supportedStepOrder(step) == (CHOOSE i \in 1..Len(SupportedSteps) : SupportedSteps[i] = step) - 1

\* part_005:71-83,94-99: a required string field
RequiredField(value, problem) == IF TrimSpace(value) = <<>> THEN <<problem>> ELSE <<>>

\* part_005:84-92
RECURSIVE ReplicaProblems(_, _)
ReplicaProblems(replicas, i) ==
    IF i > Len(replicas) THEN <<>>
    ELSE (IF TrimSpace(replicas[i]) = <<>>
          THEN << <<"topology.replicas is empty", i - 1>> >> ELSE <<>>)
         \o ReplicaProblems(replicas, i + 1)

\* faulty variant of StepOutOfOrder: the position is not looked at
StepOutOfOrderNever(pos, lastPos) == FALSE
\* part_005:122
StepOutOfOrder(pos, lastPos) == pos < lastPos

\* part_005:107-128: the loop over the steps, from steps[i] on
RECURSIVE StepProblems(_, _, _, _)
StepProblems(steps, i, seen, lastPos) ==
    IF i > Len(steps) THEN <<>>
    ELSE LET step == TrimSpace(steps[i])
         IN IF step = <<>>
            THEN << <<"steps is empty", i - 1>> >> \o StepProblems(steps, i + 1, seen, lastPos)
            ELSE IF ~StepKnown(step)
            THEN << <<"steps is not supported", i - 1>> >>
                 \o StepProblems(steps, i + 1, seen, lastPos)
            ELSE IF step \in seen
            THEN << <<"steps is duplicated", i - 1>> >>
                 \o StepProblems(steps, i + 1, seen, lastPos)
            ELSE IF StepOutOfOrder(supportedStepOrder(step), lastPos)
            THEN << <<"step order invalid", i - 1>> >>
                 \o StepProblems(steps, i + 1, seen, lastPos)
            ELSE StepProblems(steps, i + 1, seen \cup {step}, supportedStepOrder(step))

\* part_005:68-135: MigrationPlan.Validate; the problems found, in order:
\* the error is nil when there is none
Validate(plan) ==
    RequiredField(plan.migration, <<"migration is required">>)
    \o RequiredField(plan.source_version, <<"source_version is required">>)
    \o RequiredField(plan.target_version, <<"target_version is required">>)
    \o RequiredField(plan.primary, <<"topology.primary is required">>)
    \o (IF Len(plan.replicas) = 0
        THEN << <<"topology.replicas must include at least one replica">> >>
        ELSE ReplicaProblems(plan.replicas, 1))
    \o RequiredField(plan.cdc_type, <<"cdc.type is required">>)
    \o RequiredField(plan.connector, <<"cdc.connector is required">>)
    \o (IF Len(plan.steps) = 0
        THEN << <<"steps must include at least one step">> >>
        ELSE StepProblems(plan.steps, 1, {}, -1))

\* plans: all string fields set, or one of them empty or blank; a few
\* replica lists; step lists of canonical, padded, unknown and blank names
PlanFieldNames ==
    {"migration", "source_version", "target_version", "primary", "cdc_type", "connector"}
PlanFields ==
    {[n \in PlanFieldNames |-> <<"x">>]}
    \cup {[n \in PlanFieldNames |-> IF n = bad THEN v ELSE <<"x">>] :
            bad \in PlanFieldNames, v \in {<<>>, <<" ">>}}
ReplicaLists == {<<>>, << <<"r">> >>, << <<" ">> >>, << <<"r">>, <<>> >>, << <<"r">>, <<"q">> >>}
StepSpellings ==
    {SupportedSteps[i] : i \in 1..Len(SupportedSteps)}
    \cup {<<" ", "preflight">>, <<"unknown">>, <<" ">>}
Plans ==
    {[migration |-> f.migration, source_version |-> f.source_version,
      target_version |-> f.target_version, primary |-> f.primary,
      cdc_type |-> f.cdc_type, connector |-> f.connector,
      replicas |-> r, steps |-> st] :
        f \in PlanFields, r \in ReplicaLists, st \in SeqsUpTo(StepSpellings, MaxPlanSteps)}
ValidateInit == PureInit("Validate", Plans)
ValidateApply == PureApply("Validate", Validate(pIn))

\* primary-key lists of up to MaxKeyCols column names
KeyColumns == {"a", "b", "c"}
KeyLists == SeqsUpTo(KeyColumns, MaxKeyCols)
PrimaryKeyInit == PureInit("comparePrimaryKey", [primaryPK : KeyLists, replicaPK : KeyLists])
PrimaryKeyApply ==
    PureApply("comparePrimaryKey", comparePrimaryKey("t", pIn.primaryPK, pIn.replicaPK))

\* column lists: a column "a" whose attributes vary, a column "b", in
\* either order, and on the primary also two entries of one name
PrimaryColumnsA ==
    {Column("a", "int", n, d, "utf8", "c1") : n \in BOOLEAN, d \in {<<>>, <<"0">>}}
PrimaryColumnsB == {Column("b", "int", FALSE, <<>>, "utf8", "c1")}
ReplicaColumnsA ==
    {Column("a", t, n, d, cs, co) :
        t \in {"int", "text"}, n \in BOOLEAN, d \in {<<>>, <<"0">>, <<"1">>},
        cs \in {"utf8", "latin1"}, co \in {"c1", "c2"}}
ReplicaColumnsB == {Column("b", t, FALSE, <<>>, "utf8", "c1") : t \in {"int", "text"}}
ListsOf(as, bs) ==
    {<<>>} \cup {<<a>> : a \in as} \cup {<<b>> : b \in bs}
    \cup {<<a, b>> : a \in as, b \in bs} \cup {<<b, a>> : a \in as, b \in bs}
PrimaryColumnLists ==
    ListsOf(PrimaryColumnsA, PrimaryColumnsB)
    \cup {<<a1, a2>> : a1 \in PrimaryColumnsA, a2 \in PrimaryColumnsA}
ReplicaColumnLists == ListsOf(ReplicaColumnsA, ReplicaColumnsB)
ColumnsInit ==
    PureInit("compareColumns", [primaryCols : PrimaryColumnLists,
                                replicaCols : ReplicaColumnLists])
ColumnsApply ==
    /\ pFn = "compareColumns"
    /\ \E ord \in ColumnOrders(pIn.primaryCols, pIn.replicaCols) :
        PureApply("compareColumns",
                  compareColumns("t", pIn.primaryCols, pIn.replicaCols, ord.p, ord.r))

\* schemas: a table "t" with or without a key and columns, a table "u", in
\* either order, and on the primary also two entries named "t"
PrimaryTablesT ==
    {Table("t", cols, pk) :
        cols \in {<<>>, <<Column("a", "int", FALSE, <<>>, "utf8", "c1")>>,
                  <<Column("a", "int", FALSE, <<>>, "utf8", "c1"),
                    Column("b", "int", FALSE, <<>>, "utf8", "c1")>>},
        pk \in {<<>>, <<"a">>}}
ReplicaTablesT ==
    {Table("t", cols, pk) :
        cols \in {<<>>, <<Column("a", "int", FALSE, <<>>, "utf8", "c1")>>,
                  <<Column("a", "text", TRUE, <<>>, "utf8", "c1")>>,
                  <<Column("c", "int", FALSE, <<>>, "utf8", "c1"),
                    Column("a", "int", FALSE, <<>>, "utf8", "c1")>>},
        pk \in {<<>>, <<"a">>}}
TablesU == {Table("u", <<>>, <<>>)}
PrimarySchemas ==
    ListsOf(PrimaryTablesT, TablesU)
    \cup {<<t1, t2>> : t1 \in PrimaryTablesT, t2 \in PrimaryTablesT}
ReplicaSchemas == ListsOf(ReplicaTablesT, TablesU)
SchemasInit ==
    PureInit("compareSchemas", [primary : PrimarySchemas, replica : ReplicaSchemas])
SchemasApply ==
    /\ pFn = "compareSchemas"
    /\ \E ord \in SchemaOrders(pIn.primary, pIn.replica) :
        PureApply("compareSchemas", compareSchemas(pIn.primary, pIn.replica, ord))
ParityNext == PrimaryKeyApply \/ ColumnsApply \/ SchemasApply

\* strings.ToUpper on the letters in use
UpperOf(ch) ==
    CASE ch = "a" -> "A"
      [] ch = "b" -> "B"
      [] OTHER -> ch
ToUpper(str) == [i \in 1..Len(str) |-> UpperOf(str[i])]

\* strings.Split(value, ","): the parts between the commas
RECURSIVE SplitComma(_, _)
SplitComma(value, part) ==
    IF value = <<>> THEN <<part>>
    ELSE IF Head(value) = "," THEN <<part>> \o SplitComma(Tail(value), <<>>)
    ELSE SplitComma(Tail(value), Append(part, Head(value)))
\* part_005:268-278: splitCSV, the set of keys that are true
splitCSV(value) ==
    LET parts == SplitComma(value, <<>>)
    IN {ToUpper(TrimSpace(parts[i])) : i \in {j \in 1..Len(parts) : TrimSpace(parts[j]) # <<>>}}
\* part_005:280-286
toUpperSet(values) == {ToUpper(TrimSpace(values[i])) : i \in 1..Len(values)}
\* faulty variant of containsInsensitive: the case has to match
containsExact(list, value) ==
    IF value = <<>> THEN FALSE
    ELSE \E i \in 1..Len(list) : list[i] = value
\* part_005:288-299
containsInsensitive(list, value) ==
    IF value = <<>> THEN FALSE
    ELSE \E i \in 1..Len(list) : ToUpper(list[i]) = ToUpper(value)

\* part_005:191-199: the Warn about the versions of the plan
VersionFindings(source, target) ==
    IF (source # "" \/ target # "") /\ (source # "5.7" \/ target # "8.0")
    THEN <<KFindingMeta(SeverityWarn, <<"compatibility check tuned for 5.7 to 8.0 upgrades">>,
                        [source_version |-> source, target_version |-> target])>>
    ELSE <<>>
\* part_005:206-214
SQLModeFindings(modes, modeSet) ==
    Joined([i \in 1..Len(modes) |->
        IF ToUpper(modes[i]) \in modeSet
        THEN <<KFindingMeta(SeverityWarn, <<"sql_mode includes deprecated mode">>,
                            [mode |-> modes[i]])>>
        ELSE <<>>])
\* part_005:221-229
FeatureFindings(features, featureSet) ==
    Joined([i \in 1..Len(features) |->
        IF ToUpper(features[i]) \in featureSet
        THEN <<KFindingMeta(SeverityBlock, <<"deprecated feature detected">>,
                            [feature |-> features[i]])>>
        ELSE <<>>])
\* part_005:243-258: the columns of one table
CompatColumnFindings(table, charsets, collations) ==
    Joined([i \in 1..Len(table.columns) |->
        (IF containsInsensitive(charsets, table.columns[i].charset)
         THEN <<KFindingMeta(SeverityWarn, <<"uses risky charset">>,
                             [table |-> table.name, column |-> table.columns[i].name,
                              charset |-> table.columns[i].charset])>>
         ELSE <<>>)
        \o (IF containsInsensitive(collations, table.columns[i].collation)
            THEN <<KFindingMeta(SeverityWarn, <<"uses risky collation">>,
                                [table |-> table.name, column |-> table.columns[i].name,
                                 collation |-> table.columns[i].collation])>>
            ELSE <<>>)])
\* part_005:235-259: the loop over the tables of the schema
CompatTableFindings(tables, charsets, collations) ==
    Joined([i \in 1..Len(tables) |->
        (IF Len(tables[i].primaryKey) = 0
         THEN <<KFindingMeta(SeverityBlock, <<"missing primary key (CDC risk)">>,
                             [table |-> tables[i].name])>>
         ELSE <<>>)
        \o CompatColumnFindings(tables[i], charsets, collations)])

\* part_005:178-266: MySQLCompatibilityCheck.Run; c: the fields of the check,
\* insp: what the two inspectors return, input: the versions of the plan
MySQLCompatibilityCheckRun(c, insp, input) ==
    IF c.inspectorNil THEN KReturn(<<>>, <<"mysql inspector is required">>, <<>>, FALSE)
    ELSE IF c.schemaInspectorNil
    THEN KReturn(<<>>, <<"schema inspector is required">>, <<>>, FALSE)
    ELSE IF TrimSpace(c.primaryHost) = <<>>
    THEN KReturn(<<>>, <<"primary host is required">>, <<>>, FALSE)
    ELSE IF insp.sqlModeErr
    THEN KReturn(<<>>, <<"failed to read sql_mode", "boom">>, <<"SQLMode">>, TRUE)
    ELSE IF insp.featuresErr
    THEN KReturn(<<>>, <<"failed to read deprecated features", "boom">>,
                 <<"SQLMode", "DeprecatedFeaturesUsed">>, TRUE)
    ELSE IF insp.schemaErr
    THEN KReturn(<<>>, <<"failed to read schema", "boom">>,
                 <<"SQLMode", "DeprecatedFeaturesUsed", "Schema">>, TRUE)
    ELSE LET findings ==
                 VersionFindings(input.source, input.target)
                 \o SQLModeFindings(c.deprecatedSQLModes, splitCSV(insp.sqlMode))
                 \o FeatureFindings(c.deprecatedFeatures, toUpperSet(insp.features))
                 \o CompatTableFindings(insp.tables, c.riskyCharsets, c.riskyCollations)
         IN KReturn(IF Len(findings) = 0
                    THEN <<KFinding(SeverityInfo,
                                    <<"no MySQL 5.7 to 8.0 compatibility risks detected">>)>>
                    ELSE findings,
                    <<>>, <<"SQLMode", "DeprecatedFeaturesUsed", "Schema">>, FALSE)

\* the fields of the check, the answers of its inspectors and the input
CompatCheck(inspNil, schemaNil, host, modes, features, charsets, collations) ==
    [inspectorNil |-> inspNil, schemaInspectorNil |-> schemaNil, primaryHost |-> host,
     deprecatedSQLModes |-> modes, deprecatedFeatures |-> features,
     riskyCharsets |-> charsets, riskyCollations |-> collations]
CompatInspector(sqlModeErr, sqlMode, featuresErr, features, schemaErr, tables) ==
    [sqlModeErr |-> sqlModeErr, sqlMode |-> sqlMode, featuresErr |-> featuresErr,
     features |-> features, schemaErr |-> schemaErr, tables |-> tables]
CompatColumns ==
    {Column("c", "int", FALSE, <<>>, cs, co) :
        cs \in {<<>>, <<"a">>, <<"A">>}, co \in {<<>>, <<"b">>}}
CompatTablesT ==
    {Table("t", cols, pk) :
        cols \in {<<>>} \cup {<<c>> : c \in CompatColumns}, pk \in {<<>>, <<"id">>}}
CompatTablesU == {Table("u", <<>>, pk) : pk \in {<<>>, <<"id">>}}
CompatSchemas ==
    {<<>>} \cup {<<t>> : t \in CompatTablesT}
    \cup {<<t, u>> : t \in CompatTablesT, u \in CompatTablesU}
SQLModes ==
    {<<>>, <<"a">>, <<" ", "a", " ">>, <<"A", ",", "B">>, <<"b", ",", " ">>, <<",">>}
NameLists ==
    {<<>>, << <<"A">> >>, << <<"a">>, <<"B">> >>, << <<" ", "A">> >>, << <<"A">>, <<"a">> >>}
FeaturesUsed == {<<>>, << <<"a">> >>, << <<" ", "B">>, <<"A">> >>}
FeatureLists == {<<>>, << <<"A">> >>, << <<"b">>, <<"a">> >>}
RiskyLists == {<<>>, << <<"B">>, <<"a">> >>}
PlanVersions ==
    {[source |-> "", target |-> ""], [source |-> "5.7", target |-> "8.0"],
     [source |-> "5.6", target |-> "8.0"]}
\* a check that reads a schema with every kind of risk, with its fields and
\* inspectors failing in every way; and checks whose reads succeed, over
\* every setting, answer and schema
CompatInputs ==
    {[check |-> CompatCheck(n, sn, h, << <<"A">> >>, << <<"A">> >>, << <<"a">> >>, <<>>),
      insp |-> CompatInspector(me, <<"a">>, fe, << <<"a">> >>, se,
                               <<Table("t", <<Column("c", "int", FALSE, <<>>, <<"A">>, <<>>)>>,
                                       <<>>)>>),
      input |-> [source |-> "5.7", target |-> "8.0"]] :
        n \in BOOLEAN, sn \in BOOLEAN, h \in {<<>>, <<" ">>, <<"p">>},
        me \in BOOLEAN, fe \in BOOLEAN, se \in BOOLEAN}
    \cup
    {[check |-> CompatCheck(FALSE, FALSE, <<"p">>, modes, features, charsets, collations),
      insp |-> CompatInspector(FALSE, sqlMode, FALSE, used, FALSE, tables),
      input |-> v] :
        modes \in NameLists, features \in FeatureLists,
        charsets \in RiskyLists, collations \in {<<>>, << <<"b">> >>},
        sqlMode \in SQLModes, used \in FeaturesUsed, tables \in CompatSchemas,
        v \in PlanVersions}
CompatInit == PureInit("MySQLCompatibilityCheck.Run", CompatInputs)
CompatApply ==
    PureApply("MySQLCompatibilityCheck.Run",
              MySQLCompatibilityCheckRun(pIn.check, pIn.insp, pIn.input))

(* ------------------ ResultAggregator and applySummary ------------------ *)
\* part_002:6-9: the zero value of a ResultAggregator
NewAggregator == [summary |-> ZeroSummary, blocked |-> FALSE]

\* faulty variant of WithFinding: a Block is counted but blocked is not set
WithFindingUnflagged(agg, f) ==
    CASE f.sev = SeverityInfo  -> [agg EXCEPT !.summary.info = @ + 1]
      [] f.sev = SeverityWarn  -> [agg EXCEPT !.summary.warn = @ + 1]
      [] f.sev = SeverityBlock -> [agg EXCEPT !.summary.block = @ + 1]
      [] OTHER -> agg
\* part_002:15-23: one pass of the loop of AddFindings
WithFinding(agg, f) ==
    CASE f.sev = SeverityInfo  -> [agg EXCEPT !.summary.info = @ + 1]
      [] f.sev = SeverityWarn  -> [agg EXCEPT !.summary.warn = @ + 1]
      [] f.sev = SeverityBlock -> [agg EXCEPT !.summary.block = @ + 1, !.blocked = TRUE]
      [] OTHER -> agg
\* part_002:13-26: the aggregator after AddFindings; it returns !a.blocked
RECURSIVE AddFindings(_, _)
AddFindings(agg, findings) ==
    IF findings = <<>> THEN agg
    ELSE AddFindings(WithFinding(agg, Head(findings)), Tail(findings))

\* batches of findings of the three severities and of one that is none of
\* them; MaxAggFindings bounds the findings and the calls of a behaviour
AggFindings == {Finding(sv, "step") : sv \in Severities \cup {SeverityBlock + 1}}
HandedOver(batches) == Len(Joined(batches))
AggBatches(batches) ==
    IF Len(batches) >= MaxAggFindings THEN {}
    ELSE SeqsUpTo(AggFindings, MaxAggFindings - HandedOver(batches))

AggInit ==
    /\ aAgg = NewAggregator
    /\ aRet = <<>>
    /\ aBatches = <<>>
    /\ ySummary = ZeroSummary
    /\ yBatches = <<>>

\* part_002:13-26
AggAddFindings ==
    /\ UNCHANGED notAggVars
    /\ yBatches = <<>>
    /\ \E batch \in AggBatches(aBatches) :
         /\ aAgg' = AddFindings(aAgg, batch)
         /\ aRet' = <<~AddFindings(aAgg, batch).blocked>>
         /\ aBatches' = Append(aBatches, batch)
    /\ UNCHANGED <<ySummary, yBatches>>

\* preflight_test.go:206-217
AggApplySummary ==
    /\ UNCHANGED notAggVars
    /\ aBatches = <<>>
    /\ \E batch \in AggBatches(yBatches) :
         /\ ySummary' = checksApplySummary(ySummary, batch)
         /\ yBatches' = Append(yBatches, batch)
    /\ UNCHANGED <<aAgg, aRet, aBatches>>

AggNext == AggAddFindings \/ AggApplySummary

(* ----------------------- Workflow Runner: claims ----------------------- *)
HasBlock(findings) == countSeverity(findings, SeverityBlock) > 0
RunnerAtStep == rPc = "loop" /\ rIdx <= Len(rSteps)
RunnerMoved == rPc' # rPc \/ rIdx' # rIdx
StepRan == rInvoked' # rInvoked

\* C1: halting rule. Whenever the runner executes a step, the findings
\* recorded for it decide the outcome: with a Block among them the step is not
\* marked completed and Run returns (nil error); with only Info/Warn findings or
\* none, the step is marked completed and the loop moves to the next step.  Once
\* Run has returned no step is executed any more.
C1_HaltingRule ==
    [][/\ StepRan =>
            LET name == rSteps[rIdx].name
                res == rResults'[name].findings
            IN /\ rInvoked' = Append(rInvoked, rIdx)
               /\ IF HasBlock(res)
                  THEN /\ name \notin rCompleted'
                       /\ rPc' = "returned" /\ rErr' = "nil"
                  ELSE /\ name \in rCompleted'
                       /\ rPc' = "loop" /\ rIdx' = rIdx + 1
       /\ rPc = "returned" => rInvoked' = rInvoked]_vars

\* a run in which a step with a Warn (and no Block) was followed by another executed step
C1_Witness ==
    /\ Len(rInvoked) = 2
    /\ countSeverity(rResults[rSteps[rInvoked[1]].name].findings, SeverityWarn) > 0
    /\ HasBlock(rResults[rSteps[rInvoked[2]].name].findings)
    /\ rPc = "returned"

\* C2: a step whose name is already marked completed when the runner reaches
\* it (past the cancellation check) is skipped: Run is invoked only on steps not
\* marked completed, and the skip changes neither the summary, nor the results,
\* nor the completed set, and moves to the next step.
C2_SkipCompleted ==
    [][/\ StepRan => rSteps[rIdx].name \notin rCompleted
       /\ (RunnerAtStep /\ ~rCtxDone /\ rSteps[rIdx].name \in rCompleted /\ RunnerMoved)
            => /\ rInvoked' = rInvoked
               /\ rSummary' = rSummary
               /\ rResults' = rResults
               /\ rCompleted' = rCompleted
               /\ rPc' = "loop" /\ rIdx' = rIdx + 1]_vars

\* the runner has passed a completed step and executed the step after it
C2_Witness ==
    /\ Len(rSteps) = 2
    /\ rInvoked = <<2>>
    /\ rSteps[1].name \in rCompleted
    /\ rResults[rSteps[1].name] = NoResult
    /\ rSteps[1].name # rSteps[2].name

\* C3: reaching a not-completed mutating step with AllowMutations = false: the
\* step's Run is not invoked, its result is exactly one Block finding,
\* Summary.Block grows by exactly one (Info and Warn unchanged), nothing is
\* marked completed (earlier completions stay), Run returns a nil error and
\* executes nothing afterwards.
C3_MutationGate ==
    [][/\ (/\ RunnerAtStep /\ ~rCtxDone /\ RunnerMoved
           /\ rSteps[rIdx].name \notin rCompleted
           /\ rSteps[rIdx].mutates /\ ~rAllow)
            => /\ rInvoked' = rInvoked
               /\ rResults'[rSteps[rIdx].name].present
               /\ Len(rResults'[rSteps[rIdx].name].findings) = 1
               /\ rResults'[rSteps[rIdx].name].findings[1].sev = SeverityBlock
               /\ \A n \in StepNames \ {rSteps[rIdx].name} : rResults'[n] = rResults[n]
               /\ rSummary' = [rSummary EXCEPT !.block = @ + 1]
               /\ rCompleted' = rCompleted
               /\ rPc' = "returned" /\ rErr' = "nil"
       /\ rPc = "returned" => (rInvoked' = rInvoked /\ rCompleted' = rCompleted)]_vars

\* a run halted by the mutation gate at its second step, the first one completed by this run
C3_Witness ==
    /\ rPc = "returned" /\ rErr = "nil"
    /\ rInvoked = <<1>>
    /\ Len(rSteps) = 2
    /\ rSteps[2].mutates /\ ~rAllow
    /\ rSteps[1].name \in rCompleted
    /\ rSteps[2].name \notin rCompleted
    /\ rSummary.block = 1

\* C4: with a non-idempotent step anywhere in the list, Run returns a
\* configuration error with an empty Summary; no step's Run is invoked, no step
\* is marked completed and no result is recorded.
C4_NonIdempotentRejected ==
    [][(\E i \in 1..Len(rSteps) : ~rSteps[i].idempotent)
            => /\ rInvoked' = <<>>
               /\ rSummary' = ZeroSummary
               /\ rCompleted' = rCompleted
               /\ rResults' = rResults
               /\ rPc' # "idle" => (rPc' = "returned" /\ rErr' = "config")]_vars

\* Run has rejected a list whose first step is idempotent and whose second is not
C4_Witness ==
    /\ rPc = "returned" /\ rErr = "config"
    /\ Len(rSteps) = 2
    /\ rSteps[1].idempotent /\ ~rSteps[2].idempotent
    /\ rSteps[1].name \notin rCompleted

\* C11: a step error. When the invoked step's Run returns an error, the
\* result recorded for the step is every finding the step returned, in order,
\* followed by exactly one Block; the Summary grows by the returned findings
\* and by that one Block; the step is not marked completed; Run returns with a
\* nil error.  No execution of a step makes Run return an error: Run returns
\* a non-nil error only for a non-idempotent step in the list or while the
\* context is cancelled.
C11_StepError ==
    /\ [][/\ (StepRan /\ rLastOut'.err) =>
                LET name == rSteps[rIdx].name
                    ret == rLastOut'.findings
                    res == rResults'[name]
                IN /\ res.present
                   /\ Len(res.findings) = Len(ret) + 1
                   /\ SubSeq(res.findings, 1, Len(ret)) = ret
                   /\ res.findings[Len(ret) + 1].sev = SeverityBlock
                   /\ rSummary' =
                        [info |-> rSummary.info + countSeverity(ret, SeverityInfo),
                         warn |-> rSummary.warn + countSeverity(ret, SeverityWarn),
                         block |-> rSummary.block + countSeverity(ret, SeverityBlock) + 1]
                   /\ name \notin rCompleted'
                   /\ rCompleted' = rCompleted
                   /\ rPc' = "returned"
          /\ StepRan => rErr' = "nil"]_vars
    /\ [](rPc = "returned" =>
            /\ rErr \in {"nil", "config", "ctx"}
            /\ rErr = "config" => \E i \in 1..Len(rSteps) : ~rSteps[i].idempotent
            /\ rErr = "ctx" => rCtxDone)

\* the second step returned a Warn and an Info together with an error, after
\* the first step had completed
C11_Witness ==
    /\ rPc = "returned" /\ rErr = "nil"
    /\ rInvoked = <<1, 2>>
    /\ rLastOut.err
    /\ Len(rLastOut.findings) = 2
    /\ rLastOut.findings[1].sev = SeverityWarn
    /\ rLastOut.findings[2].sev = SeverityInfo
    /\ Len(rResults[rSteps[2].name].findings) = 3
    /\ rSteps[2].name \notin rCompleted

\* C12: cancellation. When the runner is about to process a step and the
\* context is cancelled, Run returns the context's error with the Summary as
\* accumulated so far; that step is not executed, nothing is recorded or marked
\* for it, and after the return no step is executed or marked.  Steps marked
\* completed stay marked.  Run returns the context's error from nowhere else.
\* A context cancelled while a step executes does not change what the runner
\* does with that step: its result is recorded and, without a Block, the step
\* is marked completed and the loop moves on.
C12_Cancellation ==
    [][/\ (RunnerAtStep /\ rCtxDone /\ RunnerMoved)
            => /\ rPc' = "returned" /\ rErr' = "ctx"
               /\ rSummary' = rSummary
               /\ rInvoked' = rInvoked
               /\ rCompleted' = rCompleted
               /\ rResults' = rResults
       /\ rPc = "returned"
            => (rInvoked' = rInvoked /\ rCompleted' = rCompleted /\ rSummary' = rSummary)
       /\ rCompleted \subseteq rCompleted'
       /\ (rErr' = "ctx" /\ rErr # "ctx") => (RunnerAtStep /\ rCtxDone)
       /\ (StepRan /\ rCtxDone')
            => LET name == rSteps[rIdx].name
               IN /\ ~rCtxDone
                  /\ rResults'[name].present
                  /\ Len(rResults'[name].findings)
                        = Len(rLastOut'.findings) + (IF rLastOut'.err THEN 1 ELSE 0)
                  /\ ~HasBlock(rResults'[name].findings)
                        => (name \in rCompleted' /\ rPc' = "loop" /\ rIdx' = rIdx + 1)]_vars

\* Run returned the context's error at its second step: the first step had
\* run with a Warn and stays completed, the second was never run
C12_Witness ==
    /\ rPc = "returned" /\ rErr = "ctx"
    /\ Len(rSteps) = 2
    /\ rInvoked = <<1>>
    /\ rSteps[1].name # rSteps[2].name
    /\ rSteps[1].name \in rCompleted
    /\ rSteps[2].name \notin rCompleted
    /\ rResults[rSteps[2].name] = NoResult
    /\ rSummary = [info |-> 0, warn |-> 1, block |-> 0]

(* ------------------ Replica Upgrade Orchestrator: claims --------------- *)
CheckpointSet(h, ph) == oStore[CheckpointKey(h, ph)] = "true"
\* the entry a step of invocation r adds to its call log first, if it adds one
LogGrew(r) == Len(oLog'[r]) > Len(oLog[r])
NewEntry(r) == oLog'[r][Len(oLog[r]) + 1]
PhaseOfEntry(e) == CHOOSE ph \in OrchPhases : PhaseAction[ph] = e.op

\* C5: exactly-once. Sequential invocations of Run for one replica on one
\* checkpoint store that starts empty: once two (or more) invocations have run
\* through all phases and no action has failed, StopReplication, RunUpgrade and
\* StartReplication have each been invoked exactly once in total; and an action
\* is never invoked while its phase's checkpoint is set.
C5_ExactlyOnce ==
    /\ [](\A h \in OrchHosts :
            (oRunsDone[h] >= 2 /\ oFailures[h] = 0)
                => \A ph \in OrchPhases : oCalls[h][ph] = 1)
    /\ [][\A h \in OrchHosts, ph \in OrchPhases :
            oCalls'[h][ph] # oCalls[h][ph] => ~CheckpointSet(h, ph)]_vars

\* two complete invocations for replica "a", no failure, the second has returned
C5_Witness ==
    /\ oRunsDone[<<"a">>] = 2
    /\ oFailures[<<"a">>] = 0
    /\ oRuns = 2
    /\ oPc[1] = "returned"
    /\ \A ph \in OrchPhases : CheckpointSet(<<"a">>, ph)

\* C6: primary guard. When Run reaches the guard (a non-blank replica,
\* inspector and actions present) and IsPrimary fails, or answers true, or the
\* trimmed target equals the configured primary: Run returns exactly one
\* finding, a Block, with Summary (0, 0, 1) and a nil error; IsPrimary is the
\* only call it made (no action, no replication status read), and it wrote no
\* checkpoint.
C6_PrimaryGuard ==
    /\ [](\A r \in OrchSlots :
            (/\ oLog[r] # <<>>
             /\ \/ oLog[r][1].res \in {"true", "error"}
                \/ (oPrimary # <<>> /\ oReplica[r] = oPrimary))
                => /\ oPc[r] = "returned"
                   /\ oErr[r] = "nil"
                   /\ Len(oFindings[r]) = 1
                   /\ oFindings[r][1].sev = SeverityBlock
                   /\ oSummary[r] = [info |-> 0, warn |-> 0, block |-> 1]
                   /\ Len(oLog[r]) = 1
                   /\ oLog[r][1].op = "IsPrimary")
    /\ [][\A r \in OrchSlots :
            oPc[r] = "primary" => (oStore' = oStore /\ oCalls' = oCalls)]_vars

\* the inspector answered "not primary" for the configured primary host and
\* Run refused it
C6_Witness ==
    /\ oPc[1] = "returned"
    /\ oPrimary = <<"p">>
    /\ oReplica[1] = <<"p">>
    /\ Len(oLog[1]) = 1
    /\ oLog[1][1].res = "false"
    /\ oFindings[1] = <<OFinding(SeverityBlock, "refusing to upgrade primary")>>

\* C7: a failing action. The step in which a phase's action returns an error
\* appends exactly one Block after the findings so far and returns with a nil
\* error, leaving every checkpoint as it was (the failed phase's unset, the
\* earlier ones set); nothing is invoked after the return; and an action is only
\* ever invoked when all earlier phases' checkpoints are set and its own is not,
\* so the next Run starts with the failed phase's action.
C7_ActionFailure ==
    [][\A r \in SeqSlots :
        /\ (LogGrew(r) /\ IsActionEntry(NewEntry(r)))
             => LET ph == PhaseOfEntry(NewEntry(r))
                    h == oReplica[r]
                IN /\ ~CheckpointSet(h, ph)
                   /\ \A q \in 1..(ph - 1) : CheckpointSet(h, q)
                   /\ NewEntry(r).res = "error" =>
                        /\ oPc'[r] = "returned"
                        /\ oErr'[r] = "nil"
                        /\ Len(oFindings'[r]) = Len(oFindings[r]) + 1
                        /\ SubSeq(oFindings'[r], 1, Len(oFindings[r])) = oFindings[r]
                        /\ oFindings'[r][Len(oFindings'[r])].sev = SeverityBlock
                        /\ oSummary'[r] = [oSummary[r] EXCEPT !.block = @ + 1]
                        /\ oStore' = oStore
        /\ oPc[r] = "returned" => (oCalls' = oCalls /\ oStore' = oStore)]_vars

\* RunUpgrade failed once and the following Run retried it, successfully,
\* without stopping replication again
C7_Witness ==
    /\ oCalls[<<"a">>] = <<1, 2, 0>>
    /\ oFailures[<<"a">>] = 1
    /\ CheckpointSet(<<"a">>, 2)
    /\ oRuns = 2
    /\ oLog[1][Len(oLog[1])].op = "Set"
    /\ \A i \in 1..Len(oLog[1]) : oLog[1][i].op # "StopReplication"

\* the step of invocation r in which ReplicationStatus was read
StatusRead(r) == LogGrew(r) /\ NewEntry(r).op = "ReplicationStatus"
\* the findings the step of invocation r appended
Appended(r) == SubSeq(oFindings'[r], Len(oFindings[r]) + 1, Len(oFindings'[r]))
Ones(b) == IF b THEN 1 ELSE 0

\* C16: partial-progress detection.  When the status read succeeds, Run
\* appends one Warn for each of these conditions that holds, in this order, and
\* nothing else: both threads stopped and the stopped checkpoint not set; both
\* threads running, stopped set and resumed not set; both threads stopped and
\* resumed set.  (A checkpoint is set when the store holds true under its
\* key.)  With exactly one thread running nothing is appended.  The Summary
\* counts the Warns, no Block is emitted and Run goes on to the first phase.
C16_PartialProgress ==
    [][\A r \in SeqSlots :
        /\ (StatusRead(r) /\ NewEntry(r).res # "error") =>
              (oFindings'[r] = oFindings[r] /\ oSummary'[r] = oSummary[r] /\ oStore' = oStore)
        /\ (oPc[r] = "getStopped" /\ oPc'[r] # oPc[r]) =>
              (oFindings'[r] = oFindings[r] /\ oSummary'[r] = oSummary[r] /\ oStore' = oStore)
        /\ (oPc[r] = "getResumed" /\ oPc'[r] # oPc[r]) =>
            LET h == oReplica[r]
                st == oLog[r][Len(oLog[r])].res
                c1 == st = "stopped" /\ ~CheckpointSet(h, 1)
                c2 == st = "running" /\ CheckpointSet(h, 1) /\ ~CheckpointSet(h, 3)
                c3 == st = "stopped" /\ CheckpointSet(h, 3)
                m1 == IF c1 THEN <<"replication appears stopped but checkpoint is missing">>
                      ELSE <<>>
                m2 == IF c2 THEN <<"checkpoint indicates replication stopped but status is running">>
                      ELSE <<>>
                m3 == IF c3 THEN <<"checkpoint indicates replication started but status is stopped">>
                      ELSE <<>>
                new == Appended(r)
            IN /\ Len(oFindings'[r]) >= Len(oFindings[r])
               /\ SubSeq(oFindings'[r], 1, Len(oFindings[r])) = oFindings[r]
               /\ [i \in 1..Len(new) |-> new[i].msg] = m1 \o m2 \o m3
               /\ \A i \in 1..Len(new) : new[i].sev = SeverityWarn
               /\ st \in {"io_only", "sql_only"} => new = <<>>
               /\ oSummary'[r] = [oSummary[r] EXCEPT !.warn = @ + Ones(c1) + Ones(c2) + Ones(c3)]
               /\ oPc'[r] = "check" /\ oPhase'[r] = 1
               /\ oStore' = oStore]_vars

\* both threads stopped, the stopped checkpoint not set and the resumed one
\* set: two Warns, and Run went on
C16_Witness ==
    /\ oPc[1] = "check" /\ oPhase[1] = 1
    /\ oReplica[1] = <<"a">>
    /\ oLog[1][Len(oLog[1])] = LogEntry("ReplicationStatus", <<"a">>, "stopped")
    /\ ~CheckpointSet(<<"a">>, 1)
    /\ CheckpointSet(<<"a">>, 3)
    /\ Len(oFindings[1]) = 2
    /\ oSummary[1] = [info |-> 0, warn |-> 2, block |-> 0]

\* C17: a failed status read.  When ReplicationStatus returns an error
\* (the primary guard passed), Run appends exactly one Warn, the Summary
\* counts it, no Block is emitted and Run goes on to the first phase.  In
\* every phase, of every run, the action is invoked exactly when the phase's
\* checkpoint is not set; a set checkpoint yields one Info and no call.
C17_StatusReadFails ==
    [][\A r \in SeqSlots :
        /\ (StatusRead(r) /\ NewEntry(r).res = "error") =>
              /\ Len(oLog[r]) = 1 /\ oLog[r][1].op = "IsPrimary" /\ oLog[r][1].res = "false"
              /\ Len(Appended(r)) = 1
              /\ Appended(r)[1].sev = SeverityWarn
              /\ SubSeq(oFindings'[r], 1, Len(oFindings[r])) = oFindings[r]
              /\ oSummary'[r] = [oSummary[r] EXCEPT !.warn = @ + 1]
              /\ oErr'[r] = "nil"
              /\ oPc'[r] = "check" /\ oPhase'[r] = 1
              /\ oStore' = oStore
        /\ (oPc[r] = "check" /\ oPc'[r] # "check" /\ ~LogGrew(r)
             /\ ~CheckpointSet(oReplica[r], oPhase[r]))
              => (oPc'[r] = "act" /\ oFindings'[r] = oFindings[r])
        /\ (oPc[r] = "check" /\ CheckpointSet(oReplica[r], oPhase[r])
             /\ (oPc'[r] # oPc[r] \/ oPhase'[r] # oPhase[r]))
              => /\ ~LogGrew(r)
                 /\ oCalls' = oCalls
                 /\ Len(Appended(r)) = 1
                 /\ Appended(r)[1].sev = SeverityInfo
                 /\ oPc'[r] # "act"
        /\ (LogGrew(r) /\ IsActionEntry(NewEntry(r)))
              => /\ oPc[r] = "act"
                 /\ ~CheckpointSet(oReplica[r], PhaseOfEntry(NewEntry(r)))
                 /\ PhaseOfEntry(NewEntry(r)) = oPhase[r]]_vars

\* the status read failed; on a store that held the stopped checkpoint only,
\* Run skipped the stop and ran the upgrade and the start
C17_Witness ==
    /\ oPc[1] = "returned" /\ oErr[1] = "nil"
    /\ Len(oLog[1]) >= 2
    /\ oLog[1][2] = LogEntry("ReplicationStatus", <<"a">>, "error")
    /\ oCalls[<<"a">>] = <<0, 1, 1>>
    /\ oFailures[<<"a">>] = 0
    /\ oRuns = 1
    /\ oSummary[1] = [info |-> 3, warn |-> 1, block |-> 0]

(* ------------------------ Promotion Gate: claims ----------------------- *)
RECURSIVE CountSev(_, _)
CountSev(findings, sv) ==
    IF findings = <<>> THEN 0
    ELSE (IF Head(findings).sev = sv THEN 1 ELSE 0) + CountSev(Tail(findings), sv)

RECURSIVE ResultsCount(_, _)
ResultsCount(results, sv) ==
    IF results = <<>> THEN 0
    ELSE CountSev(Head(results).findings, sv) + ResultsCount(Tail(results), sv)

SuppliedNames == {gChecks[i].name : i \in 1..Len(gChecks)}
RequiredNames ==
    LET req == IF gRequired = <<>> THEN <<"cdc_debezium_health", "schema_parity">> ELSE gRequired
    IN {req[i] : i \in 1..Len(req)}
PhraseBlank == \A i \in 1..Len(gPhrase) : gPhrase[i] = " "
\* the gate got past the confirmation and the required-check validation
GateAdmitted ==
    /\ gPc # "idle" /\ ~PhraseBlank /\ gConfirmation = gPhrase
    /\ RequiredNames \subseteq SuppliedNames
AllReadOnly == \A i \in 1..Len(gChecks) : gChecks[i].readOnly

\* what the claim says of a gate that has returned after the revalidation
StrictRevalidation ==
    /\ gErr = "nil"
    /\ gInvoked = [i \in 1..Len(gChecks) |-> i]
    /\ gSummary.block = 0 <=>
         (ResultsCount(gResults, SeverityWarn) = 0 /\ ResultsCount(gResults, SeverityBlock) = 0)
    /\ gSummary.block # 0 =>
         /\ gFindings # <<>>
         /\ gFindings[Len(gFindings)].sev = SeverityBlock
         /\ gFindings[Len(gFindings)].msg = <<"promotion blocked due to WARN/BLOCK findings">>
         /\ Len(gFindings) = ResultsCount(gResults, SeverityInfo)
                             + ResultsCount(gResults, SeverityWarn)
                             + ResultsCount(gResults, SeverityBlock) + 1
         /\ gSummary.block = ResultsCount(gResults, SeverityBlock) + 1
    /\ gSummary.block = 0 => CountSev(gFindings, SeverityInfo) = Len(gFindings)

\* C8 as stated: with a matching confirmation and all required checks
\* present the gate runs every supplied check and blocks exactly on a Warn or a
\* Block among the checks' findings, with one synthetic Block appended last;
\* and in every outcome Summary.Block counts the Block findings returned.
C8_AsStated ==
    /\ (gPc = "returned" /\ GateAdmitted) => StrictRevalidation
    /\ gPc = "returned" => gSummary.block = CountSev(gFindings, SeverityBlock)

\* C8, amended: the same, provided every supplied check reports ReadOnly;
\* a check that does not makes Run return a configuration error with an empty
\* Summary and no findings, having run exactly the checks in front of the
\* first such check: neither that check nor any after it.  In every outcome
\* Summary.Block counts the Block findings returned.
C8_StrictRevalidation ==
    /\ (gPc = "returned" /\ GateAdmitted /\ AllReadOnly) => StrictRevalidation
    /\ (gPc = "returned" /\ GateAdmitted /\ ~AllReadOnly)
            => /\ gErr = "readonly" /\ gSummary = ZeroSummary /\ gFindings = <<>>
               /\ Len(gInvoked) < Len(gChecks)
               /\ gInvoked = [i \in 1..Len(gInvoked) |-> i]
               /\ \A i \in 1..Len(gInvoked) : gChecks[i].readOnly
               /\ ~gChecks[Len(gInvoked) + 1].readOnly
    /\ gPc = "returned" => gSummary.block = CountSev(gFindings, SeverityBlock)

\* two read-only checks ran, the only Warn among Info findings blocked the promotion
C8_Witness ==
    /\ gPc = "returned" /\ GateAdmitted /\ AllReadOnly
    /\ gInvoked = <<1, 2>>
    /\ ResultsCount(gResults, SeverityWarn) = 1
    /\ ResultsCount(gResults, SeverityBlock) = 0
    /\ ResultsCount(gResults, SeverityInfo) = 1
    /\ gSummary = [info |-> 1, warn |-> 1, block |-> 1]

\* C9: confirmation. A blank configured phrase is a configuration error
\* with no findings; otherwise a confirmation that is not exactly the configured
\* phrase yields exactly one Block, Summary (0, 0, 1) and a nil error.  In both
\* cases no check is invoked, whatever checks are supplied.
C9_Confirmation ==
    gPc # "idle" =>
        /\ PhraseBlank =>
             /\ gPc = "returned" /\ gErr = "phrase"
             /\ gFindings = <<>> /\ gSummary = ZeroSummary
             /\ gInvoked = <<>> /\ gResults = <<>>
        /\ (~PhraseBlank /\ gConfirmation # gPhrase) =>
             /\ gPc = "returned" /\ gErr = "nil"
             /\ Len(gFindings) = 1
             /\ gFindings[1].sev = SeverityBlock
             /\ gFindings[1].msg = <<"promotion requires explicit confirmation">>
             /\ gSummary = [info |-> 0, warn |-> 0, block |-> 1]
             /\ gInvoked = <<>> /\ gResults = <<>>

\* the confirmation differs from the phrase only by a trailing blank; all
\* required checks are supplied and none was run
C9_Witness ==
    /\ gPc = "returned"
    /\ gPhrase = <<"y">> /\ gConfirmation = <<"y", " ">>
    /\ RequiredNames \subseteq SuppliedNames
    /\ Len(gChecks) = 2
    /\ gSummary.block = 1

\* C10: required checks. With a matching confirmation, if a name of the
\* required set (the configured one, or cdc_debezium_health and schema_parity
\* when none is configured) is not the name of a supplied check, Run returns
\* exactly one Block whose list of missing names holds exactly the required
\* names not supplied, Summary (0, 0, 1), a nil error, and no check is invoked.
C10_RequiredChecks ==
    (/\ gPc # "idle" /\ ~PhraseBlank /\ gConfirmation = gPhrase
     /\ ~(RequiredNames \subseteq SuppliedNames))
        => /\ gPc = "returned" /\ gErr = "nil"
           /\ Len(gFindings) = 1
           /\ gFindings[1].sev = SeverityBlock
           /\ gFindings[1].msg = <<"promotion requires checks">>
           /\ {gFindings[1].missing[i] : i \in 1..Len(gFindings[1].missing)}
                = RequiredNames \ SuppliedNames
           /\ gSummary = [info |-> 0, warn |-> 0, block |-> 1]
           /\ gInvoked = <<>> /\ gResults = <<>>

\* no required set configured, schema_parity supplied, cdc_debezium_health not
C10_Witness ==
    /\ gPc = "returned"
    /\ gPhrase = <<"y">> /\ gConfirmation = <<"y">>
    /\ gRequired = <<>>
    /\ SuppliedNames = {"schema_parity"}
    /\ AllReadOnly
    /\ gFindings[1].missing = <<"cdc_debezium_health">>

(* ------------------------ Checks Runner: claims ------------------------ *)
ChecksRan == cInvoked' # cInvoked
IsBlankMsg(msg) == \A i \in 1..Len(msg) : msg[i] = " "
ChecksAllReadOnly == \A i \in 1..Len(cChecks) : cChecks[i].readOnly
\* how many of the findings carry a message and have severity sv
CountWithMessage(findings, sv) ==
    Cardinality({i \in 1..Len(findings) : ~IsBlankMsg(findings[i].msg) /\ findings[i].sev = sv})
CountBlank(findings) ==
    Cardinality({i \in 1..Len(findings) : IsBlankMsg(findings[i].msg)})
AllWithMessage(findings) == \A i \in 1..Len(findings) : ~IsBlankMsg(findings[i].msg)

\* C13: the Checks Runner runs every check.  Checks are invoked one after
\* the other in list order, each once; every invocation appends one Result
\* carrying the check's name, whatever the earlier checks returned; a returned
\* error adds exactly one Block with the check's name after the findings the
\* check returned, which are kept (those that carry a message, unchanged).
\* With a list of read-only checks Run returns a nil error and one Result per
\* check, in list order.
C13_RunsEveryCheck ==
    /\ [][ChecksRan =>
            LET name == cChecks[cIdx].name
                raw == cLastOut'.findings
                res == cResults'[Len(cResults')].findings
            IN /\ cInvoked' = Append(cInvoked, cIdx)
               /\ Len(cResults') = Len(cResults) + 1
               /\ SubSeq(cResults', 1, Len(cResults)) = cResults
               /\ cResults'[Len(cResults')].checkName = name
               /\ Len(res) = Len(raw) + (IF cLastOut'.err THEN 1 ELSE 0)
               /\ \A i \in 1..Len(raw) : ~IsBlankMsg(raw[i].msg) => res[i] = raw[i]
               /\ cLastOut'.err =>
                    /\ res[Len(res)].sev = SeverityBlock
                    /\ res[Len(res)].check = name]_vars
    /\ [](cInvoked = [i \in 1..Len(cInvoked) |-> i])
    /\ []((cPc = "returned" /\ ChecksAllReadOnly) =>
            /\ cRet.err = "nil"
            /\ cInvoked = [i \in 1..Len(cChecks) |-> i]
            /\ Len(cRet.results) = Len(cChecks)
            /\ \A i \in 1..Len(cChecks) : cRet.results[i].checkName = cChecks[i].name)

\* the first check returned a Block finding together with an error, and the
\* second check was run all the same
C13_Witness ==
    /\ cPc = "returned" /\ cRet.err = "nil"
    /\ Len(cChecks) = 2
    /\ cInvoked = <<1, 2>>
    /\ Len(cRet.results[1].findings) = 2
    /\ cRet.results[1].findings[1].sev = SeverityBlock
    /\ cRet.results[1].findings[2].msg = <<"check error">>
    /\ cRet.results[2].findings = <<>>

\* C14: a check that is not read-only.  Run is never invoked on a check
\* with ReadOnly() == false; when the list holds one, Run returns a non-nil
\* error with the empty Summary and nil results, whatever the checks before
\* it produced, having invoked exactly the checks in front of the first such
\* check.  Run returns no error otherwise.
C14_ReadOnlyAbort ==
    /\ \A i \in 1..Len(cInvoked) : cChecks[cInvoked[i]].readOnly
    /\ (cPc = "returned" /\ ~ChecksAllReadOnly) =>
            /\ cRet.err = "readonly"
            /\ cRet.summary = ZeroSummary
            /\ cRet.results = <<>> /\ cRet.resultsNil
            /\ Len(cInvoked) < Len(cChecks)
            /\ ~cChecks[Len(cInvoked) + 1].readOnly
    /\ (cPc = "returned" /\ cRet.err # "nil") => ~ChecksAllReadOnly

\* the first check ran and produced a Warn, the second is not read-only:
\* Run returned the error and none of what the first check produced
C14_Witness ==
    /\ cPc = "returned" /\ cRet.err = "readonly"
    /\ Len(cChecks) = 2
    /\ cInvoked = <<1>>
    /\ cSummary.warn = 1
    /\ Len(cResults) = 1
    /\ cRet.summary = ZeroSummary

\* C15: messages.  No finding in the Checks Runner's results, nor in the
\* findings the Promotion Gate returns, has an empty or white-space-only
\* message.  Each finding a check returned with such a message is replaced,
\* at its position, by a Block finding carrying the check's name, and the
\* Summary counts it as a Block, not under the severity the check gave it.
C15_NonBlankMessages ==
    /\ [](/\ \A k \in 1..Len(cResults) : AllWithMessage(cResults[k].findings)
          /\ \A k \in 1..Len(cRet.results) : AllWithMessage(cRet.results[k].findings)
          /\ \A k \in 1..Len(gResults) : AllWithMessage(gResults[k].findings)
          /\ AllWithMessage(gFindings))
    /\ [][ChecksRan =>
            LET name == cChecks[cIdx].name
                raw == cLastOut'.findings
                res == cResults'[Len(cResults')].findings
                e == IF cLastOut'.err THEN 1 ELSE 0
            IN /\ Len(res) = Len(raw) + e
               /\ \A i \in 1..Len(raw) : IsBlankMsg(raw[i].msg) =>
                    /\ res[i].sev = SeverityBlock
                    /\ res[i].check = name
               /\ cSummary'.info = cSummary.info + CountWithMessage(raw, SeverityInfo)
               /\ cSummary'.warn = cSummary.warn + CountWithMessage(raw, SeverityWarn)
               /\ cSummary'.block = cSummary.block + CountWithMessage(raw, SeverityBlock)
                                        + CountBlank(raw) + e]_vars

\* a check returned a Warn whose message is white space only: its result
\* holds a Block in its place and the Summary counts one Block and no Warn
C15_Witness ==
    /\ cPc = "returned" /\ cRet.err = "nil"
    /\ cInvoked = <<1>>
    /\ cLastOut = [findings |-> <<GFinding(SeverityWarn, <<" ">>, "", <<>>)>>, err |-> FALSE]
    /\ cRet.summary = [info |-> 0, warn |-> 0, block |-> 1]
    /\ cRet.results[1].findings[1].sev = SeverityBlock

(* ----------------------- Checkpoint State: claims ---------------------- *)
AllIdle == \A t \in StateThreads : tPc[t] = "idle"
\* the thread has returned from a Set or MarkCompleted of a FileState
ReturnedFromWrite(t) ==
    /\ tPc[t] = "idle"
    /\ IsWrite(tCall[t])
    /\ tCall[t].inst \in FileInstances

\* C18: FileState durability. After every return of Set or MarkCompleted the
\* file content equals the in-memory map, so a FileState opened on the same
\* path afterwards returns the same results for Get and IsCompleted, and a
\* checkpoint the running process observes as set is not missing for a later
\* process. The code drops the error persist returns, and encoding changes
\* the type of a number, so this statement of the claim does not hold.
C18_AsStated ==
    \A t \in OneThread :
        ReturnedFromWrite(t) =>
            LET data == sData[tCall[t].inst]
                later == Unmarshal(sFile.bytes).data
            IN /\ sFile.exists
               /\ Marshalable(data)
               /\ sFile.bytes = Marshal(data)
               /\ \A k \in StateKeys : GetOf(later, k) = GetOf(data, k)
               /\ \A st \in StateSteps :
                    IsCompletedOf(data, st) => IsCompletedOf(later, st)

\* a thread is between Lock and Unlock of the State object o
Holds(t, o) ==
    /\ tPc[t] \in {"body", "marshal", "truncate", "write", "unlock"}
    /\ tCall[t].inst = o

\* the sequences that order the elements of seq in every possible way
Orders(seq) ==
    LET n == Len(seq)
        bij == {f \in [1..n -> 1..n] : \A i, j \in 1..n : f[i] = f[j] => i = j}
    IN {[i \in 1..n |-> seq[f[i]]] : f \in bij}

RECURSIVE ReplayFile(_, _)
ReplayFile(data, calls) ==
    IF calls = <<>> THEN data
    ELSE ReplayFile(FileApply(data, Head(calls)), Tail(calls))

RECURSIVE ReplayMem(_, _)
ReplayMem(mem, calls) ==
    IF calls = <<>> THEN mem
    ELSE LET c == Head(calls)
             next == IF c.op = "Set"
                     THEN [mem EXCEPT !.values = [@ EXCEPT ![c.key] = c.value]]
                     ELSE [mem EXCEPT !.completed = @ \cup {c.step}]
         IN ReplayMem(next, Tail(calls))

\* the Set or MarkCompleted is in the map of the FileState
KeptInFile(data, call) ==
    IF call.op = "Set" THEN data[call.key] # "absent"
    ELSE data[completedKey(call.step)] = "true"
\* the Set or MarkCompleted is in the MemoryState
KeptInMemory(call) ==
    IF call.op = "Set" THEN mValues[call.key] # "absent"
    ELSE call.step \in mCompleted

\* C19: one State instance (MemoryState or FileState) is safe under
\* concurrent callers. Every Get, Set, MarkCompleted and IsCompleted runs
\* under the lock of the instance: two threads are inside the same instance
\* only when both are readers of a MemoryState. Once all calls have
\* returned, the contents are those some sequential order of all the
\* returned Set and MarkCompleted calls gives, none of them is lost, and
\* the file holds the encoding of the FileState's map when no persist
\* failed.
C19_ConcurrentSafety ==
    /\ \A t1, t2 \in StateThreads : \A o \in StateObjects :
         (t1 # t2 /\ Holds(t1, o) /\ Holds(t2, o)) =>
             (o = "m" /\ ~IsWrite(tCall[t1]) /\ ~IsWrite(tCall[t2]))
    /\ AllIdle =>
         /\ \A i \in FileInstances :
              sOpen[i] = "open" =>
                  /\ \E order \in Orders(sDone[i]) :
                       ReplayFile(sBase[i], order) = sData[i]
                  /\ \A n \in 1..Len(sDone[i]) : KeptInFile(sData[i], sDone[i][n])
                  /\ (~sFailed[i] /\ sDone[i] # <<>>) =>
                       sFile = FileWith(Marshal(sData[i]))
         /\ \E order \in Orders(sDone["m"]) :
              ReplayMem([values |-> EmptyMap, completed |-> {}], order)
                  = [values |-> mValues, completed |-> mCompleted]
         /\ \A n \in 1..Len(sDone["m"]) : KeptInMemory(sDone["m"][n])

\* one thread holds the lock of the FileState for MarkCompleted("s") and
\* has written a part of the file, while the other waits for that lock for
\* Set("k", 1), after a MarkCompleted on the MemoryState
C19_Witness ==
    /\ tPc[1] = "write" /\ tCall[1] = StateCall("f1", "MarkCompleted", <<>>, "s", "absent")
    /\ 0 < tOff[1]
    /\ tPc[2] = "lock" /\ tCall[2] = StateCall("f1", "Set", <<"k">>, "", "int")
    /\ sMu["f1"] = 1
    /\ mCompleted = {"s"}
    /\ Len(sDone["m"]) = 1

(* ---------------------------- Checks: claims --------------------------- *)
\* C20: every check converts a failure of its inspection interface into a
\* Block finding returned with a nil error, never into a returned error:
\* the Debezium health check (connector status read), the Kafka schema
\* history check (topic existence, readability, coverage reads) and the
\* schema parity check (primary and replica schema reads). The schema
\* parity check returns the failed read as an error with no findings, so
\* this statement of the claim does not hold.
C20_AsStated ==
    (kPc = "returned" /\ kOut.failed) =>
        /\ kOut.err = <<>>
        /\ \E i \in 1..Len(kOut.findings) : kOut.findings[i].sev = SeverityBlock

\* the Debezium health check has read the connector status without error
DebeziumStatusRead ==
    /\ kPc = "returned"
    /\ kCheck = "cdc_debezium_health"
    /\ kOut.calls = <<"ConnectorStatus">>
    /\ ~kOut.failed
HasMsg(findings, msg) == \E i \in 1..Len(findings) : findings[i].msg = msg
NotRunning(task) == task.state # "RUNNING"
HasMeta(f) == "meta" \in DOMAIN f
BoolCount(b) == IF b THEN 1 ELSE 0

\* C21: the Debezium health check, after a successful status read, returns
\* one Block if the connector is not RUNNING, one Block for each task that
\* is not RUNNING, carrying that task's trace, in the order of the tasks,
\* and one Block if a restart loop is detected, all together; it returns
\* exactly one Info when none of these applies and no Info otherwise, so
\* the result is never empty, holds no Warn, and never holds Info and Block
\* together. The error is nil.
C21_DebeziumFindings ==
    DebeziumStatusRead =>
        LET f == kOut.findings
            failing == SelectSeq(kInsp.tasks, NotRunning)
            traced == SelectSeq(f, HasMeta)
            blocks == BoolCount(kInsp.connState # "RUNNING") + Len(failing)
                          + BoolCount(HasMsg(f, <<"restart loop">>))
        IN /\ kOut.err = <<>>
           /\ CountSev(f, SeverityBlock) = blocks
           /\ CountSev(f, SeverityWarn) = 0
           /\ CountSev(f, SeverityInfo) = BoolCount(blocks = 0)
           /\ Len(f) = blocks + BoolCount(blocks = 0)
           /\ Len(f) >= 1
           /\ Len(traced) = Len(failing)
           /\ \A i \in 1..Len(failing) :
                /\ traced[i].sev = SeverityBlock
                /\ traced[i].meta.trace = failing[i].trace
                /\ traced[i].meta.state = failing[i].state
           /\ (kInsp.connState # "RUNNING") = HasMsg(f, <<"connector is", kInsp.connState>>)

\* a paused connector with two failed tasks in a restart loop: four Blocks
C21_Witness ==
    /\ DebeziumStatusRead
    /\ kInsp.connState = "PAUSED"
    /\ Len(kInsp.tasks) = 2
    /\ kInsp.tasks[1] = [state |-> "FAILED", trace |-> "stacktrace"]
    /\ kInsp.tasks[2] = [state |-> "FAILED", trace |-> ""]
    /\ HasMsg(kOut.findings, <<"restart loop">>)
    /\ Len(kOut.findings) = 4

\* the Debezium health check reads the status now
DebeziumReads ==
    /\ kPc = "ready" /\ kPc' = "returned"
    /\ kCheck = "cdc_debezium_health"
    /\ kOut'.calls = <<"ConnectorStatus">>
    /\ ~kOut'.failed

\* C22: restart-loop detection. With max and window taken from the check,
\* a zero max meaning 3 and a zero window meaning 10 minutes, the restart
\* loop Block is returned if and only if the restart count is at least max,
\* a last-restart time is present and the time since it is at most the
\* window; the defaults are stored in the check.
C22_RestartLoop ==
    [][DebeziumReads =>
          LET max == IF kCfg.loopMax = 0 THEN 3 ELSE kCfg.loopMax
              window == IF kCfg.loopWindow = 0 THEN 10 ELSE kCfg.loopWindow
          IN /\ HasMsg(kOut'.findings, <<"restart loop">>)
                  = (/\ kInsp.restarts >= max
                     /\ kInsp.hasLast
                     /\ kInsp.elapsed <= window)
             /\ kCfg'.loopMax = max
             /\ kCfg'.loopWindow = window]_vars

\* the defaults at their edge: three restarts, the last one ten minutes ago
C22_Witness ==
    /\ DebeziumStatusRead
    /\ kCfg.loopMax = 3 /\ kCfg.loopWindow = 10
    /\ kInsp.restarts = 3 /\ kInsp.hasLast /\ kInsp.elapsed = 10
    /\ kInsp.connState = "RUNNING" /\ kInsp.tasks = <<>>
    /\ kOut.findings = <<KFinding(SeverityBlock, <<"restart loop">>)>>

\* the schema history check has run with an inspector and a topic
SchemaHistoryRan ==
    /\ kPc = "returned"
    /\ kCheck = "cdc_schema_history"
    /\ ~kCfg.inspectorNil /\ ~kCfg.nameEmpty

\* C23: the Kafka schema history check asks TopicExists, then TopicReadable,
\* then SchemaHistoryTables. The first read that fails or answers no (for
\* the last one: tables are missing) ends the check with exactly one Block,
\* and no later read is made; with three good answers there is exactly one
\* Info. In every case the check returns exactly one finding and a nil
\* error.
C23_SchemaHistoryOrder ==
    SchemaHistoryRan =>
        LET f == kOut.findings
            bad(answer) == answer \in {"err", "false", "missing"}
            reads == Len(kOut.calls)
        IN /\ kOut.err = <<>>
           /\ Len(f) = 1
           /\ f[1].sev \in {SeverityBlock, SeverityInfo}
           /\ reads \in 1..3
           /\ kOut.calls =
                SubSeq(<<"TopicExists", "TopicReadable", "SchemaHistoryTables">>, 1, reads)
           /\ bad(kInsp.exists) => (reads = 1 /\ f[1].sev = SeverityBlock)
           /\ (~bad(kInsp.exists) /\ bad(kInsp.readable))
                => (reads = 2 /\ f[1].sev = SeverityBlock)
           /\ (~bad(kInsp.exists) /\ ~bad(kInsp.readable))
                => (reads = 3 /\ (f[1].sev = SeverityBlock) = bad(kInsp.tables))
           /\ kOut.failed =
                \/ kInsp.exists = "err"
                \/ kInsp.exists = "true" /\ kInsp.readable = "err"
                \/ kInsp.exists = "true" /\ kInsp.readable = "true" /\ kInsp.tables = "err"

\* the topic exists but is not readable: two reads, one Block, although the
\* coverage read would have failed
C23_Witness ==
    /\ SchemaHistoryRan
    /\ kInsp.exists = "true" /\ kInsp.readable = "false" /\ kInsp.tables = "err"
    /\ kOut.calls = <<"TopicExists", "TopicReadable">>
    /\ kOut.findings = <<KFinding(SeverityBlock, <<"schema history topic is not readable">>)>>
    /\ ~kOut.failed

(* ------------------------ Functions: claims ---------------------------- *)
\* the lower-case letter of a letter
FoldChar(ch) == IF ch = "A" THEN "a" ELSE IF ch = "B" THEN "b" ELSE ch
\* a name without the blanks around it and without regard to case
Folded(name) == [i \in 1..Len(TrimSpace(name)) |-> FoldChar(TrimSpace(name)[i])]
CoverageDone == pFn = "missingTables" /\ pPc = "returned"

\* C24: schema history coverage. An expected table is missing when it is
\* not blank and no covered table has the same name, names being compared
\* without regard to case and to the blanks around them. The check returns
\* one Block listing every missing table, as written and in the order of
\* the expected list, when there is one, and otherwise one Info; an empty
\* expected list gives the Info.
C24_Coverage ==
    CoverageDone =>
        LET expected == pIn.expected
            covered == pIn.covered
            isMissing(e) ==
                /\ Folded(e) # <<>>
                /\ \A j \in 1..Len(covered) : Folded(covered[j]) # Folded(e)
            missing == SelectSeq(expected, isMissing)
            f == pOut[1]
        IN /\ Len(f) = 1
           /\ (f[1].sev = SeverityBlock) = (missing # <<>>)
           /\ (f[1].sev = SeverityInfo) = (missing = <<>>)
           /\ f[1].missing = missing
           /\ expected = <<>> => f[1].sev = SeverityInfo

\* "A" is covered as "a ", " B" is not covered by "a": one Block lists " B"
C24_Witness ==
    /\ CoverageDone
    /\ pIn.expected = <<<<"A">>, <<" ", "B">>>>
    /\ pIn.covered = <<<<"a", " ">>>>
    /\ pOut[1] = <<GFinding(SeverityBlock, <<"schema history missing tables">>, "",
                            <<<<" ", "B">>>>)>>

ValidateDone == pFn = "Validate" /\ pPc = "returned"
NonBlank(str) == \E i \in 1..Len(str) : str[i] # " "
\* the place of a step name, padding aside, in the canonical order; 0 when
\* it is not a supported name
CanonPlace(step) ==
    CASE TrimSpace(step) = <<"preflight">> -> 1
      [] TrimSpace(step) = <<"upgrade_replica">> -> 2
      [] TrimSpace(step) = <<"validate_replica">> -> 3
      [] TrimSpace(step) = <<"cdc_check">> -> 4
      [] TrimSpace(step) = <<"promote">> -> 5
      [] TrimSpace(step) = <<"post_validation">> -> 6
      [] OTHER -> 0
PlanFieldsSet(plan) ==
    /\ NonBlank(plan.migration) /\ NonBlank(plan.source_version)
    /\ NonBlank(plan.target_version) /\ NonBlank(plan.primary)
    /\ NonBlank(plan.cdc_type) /\ NonBlank(plan.connector)
    /\ Len(plan.replicas) > 0
    /\ \A i \in 1..Len(plan.replicas) : NonBlank(plan.replicas[i])
\* supported names only, none twice, in canonical order: the places rise
PlanStepsOrdered(plan) ==
    /\ \A i \in 1..Len(plan.steps) : CanonPlace(plan.steps[i]) > 0
    /\ \A i, j \in 1..Len(plan.steps) :
         i < j => CanonPlace(plan.steps[i]) < CanonPlace(plan.steps[j])

\* C25 as stated: Validate returns nil exactly when the required fields are
\* not blank, there is a replica and none is blank, and the steps are
\* supported names (padding aside), none twice, in canonical order, any of
\* them omitted. Validate rejects a plan without steps, so this statement
\* does not hold.
C25_AsStated ==
    ValidateDone =>
        ((pOut[1] = <<>>) = (PlanFieldsSet(pIn) /\ PlanStepsOrdered(pIn)))

\* C25: Validate returns nil exactly when the required fields are not
\* blank, there is a replica and none is blank, there is at least one step,
\* and the steps, blanks around a name aside, are supported names, none
\* twice, in canonical order; any steps but not all may be omitted. Every
\* other plan gets an error.
C25_Validate ==
    ValidateDone =>
        ((pOut[1] = <<>>) = (/\ PlanFieldsSet(pIn)
                             /\ Len(pIn.steps) > 0
                             /\ PlanStepsOrdered(pIn)))

\* a plan of two steps, the first one padded, with the middle steps left
\* out, is accepted
C25_Witness ==
    /\ ValidateDone
    /\ pIn.steps = << <<" ", "preflight">>, <<"promote">> >>
    /\ pIn.replicas = << <<"r">>, <<"q">> >>
    /\ pIn.migration = <<"x">>
    /\ pOut[1] = <<>>

ParityDone(fn) == pFn = fn /\ pPc = "returned"
NamesIn(items) == {items[i].name : i \in DOMAIN items}
\* of several entries of one name, the last one counts
LastNamed(items, n) ==
    items[CHOOSE i \in DOMAIN items :
            items[i].name = n /\ \A j \in DOMAIN items : j > i => items[j].name # n]
\* the places in findings of those about the table, about its key, and
\* about one of its columns
AboutTable(findings, table) == {i \in DOMAIN findings : findings[i].meta.table = table}
KeyMessages ==
    {<<"has primary key on replica but not on primary">>,
     <<"missing primary key on replica">>, <<"primary key mismatch">>}
AboutKey(findings, table) ==
    {i \in AboutTable(findings, table) : findings[i].msg \in KeyMessages}
AboutColumn(findings, table, column) ==
    {i \in AboutTable(findings, table) :
        /\ "column" \in DOMAIN findings[i].meta
        /\ findings[i].meta.column = column}
OneFinding(findings, places, sev, msg) ==
    /\ Cardinality(places) = 1
    /\ \A i \in places : findings[i].sev = sev /\ findings[i].msg = <<msg>>
KeyRule(findings, table, p, r) ==
    LET places == AboutKey(findings, table)
    IN /\ (p = <<>> /\ r = <<>>) => places = {}
       /\ (p = <<>> /\ r # <<>>) =>
            OneFinding(findings, places, SeverityWarn,
                       "has primary key on replica but not on primary")
       /\ (p # <<>> /\ r = <<>>) =>
            OneFinding(findings, places, SeverityBlock, "missing primary key on replica")
       /\ (p # <<>> /\ r # <<>> /\ p # r) =>
            OneFinding(findings, places, SeverityBlock, "primary key mismatch")
       /\ (p # <<>> /\ r # <<>> /\ p = r) => places = {}

\* C26: for a table found on both sides, comparePrimaryKey returns nothing
\* when both key lists are empty, one Warn when only the replica has a key,
\* one Block when only the primary has one, and with a key on both sides
\* one Block when the lists differ in length or at some position and
\* nothing when they are equal; compareSchemas reports the key of every
\* table found on both sides in that way.
C26_PrimaryKey ==
    /\ ParityDone("comparePrimaryKey") =>
         /\ KeyRule(pOut[1], "t", pIn.primaryPK, pIn.replicaPK)
         /\ Len(pOut[1]) = Cardinality(AboutKey(pOut[1], "t"))
    /\ ParityDone("compareSchemas") =>
         \A n \in NamesIn(pIn.primary) \cap NamesIn(pIn.replica) :
            KeyRule(pOut[1], n, LastNamed(pIn.primary, n).primaryKey,
                    LastNamed(pIn.replica, n).primaryKey)

\* the same two key columns in another order give one Block
C26_Witness ==
    /\ ParityDone("comparePrimaryKey")
    /\ pIn.primaryPK = <<"a", "b">>
    /\ pIn.replicaPK = <<"b", "a">>
    /\ Len(pOut[1]) = 1
    /\ pOut[1][1].sev = SeverityBlock

ColumnPresence(findings, table, primaryCols, replicaCols) ==
    /\ \A c \in NamesIn(primaryCols) \ NamesIn(replicaCols) :
         OneFinding(findings, AboutColumn(findings, table, c), SeverityBlock,
                    "column missing on replica")
    /\ \A c \in NamesIn(replicaCols) \ NamesIn(primaryCols) :
         OneFinding(findings, AboutColumn(findings, table, c), SeverityWarn,
                    "has extra column on replica")

\* C27: compareSchemas returns, for each table of the primary that the
\* replica lacks, exactly one finding about that table, a Block, and for
\* each table of the replica only exactly one, a Warn; for a table found on
\* both sides, and in compareColumns, each column of the primary that the
\* replica lacks gives exactly one finding, a Block, and each column of the
\* replica only exactly one, a Warn.
C27_Presence ==
    /\ ParityDone("compareSchemas") =>
         LET pn == NamesIn(pIn.primary)
             rn == NamesIn(pIn.replica)
         IN /\ \A n \in pn \ rn :
                 OneFinding(pOut[1], AboutTable(pOut[1], n), SeverityBlock,
                            "table missing on replica")
            /\ \A n \in rn \ pn :
                 OneFinding(pOut[1], AboutTable(pOut[1], n), SeverityWarn,
                            "extra table exists on replica")
            /\ \A n \in pn \cap rn :
                 ColumnPresence(pOut[1], n, LastNamed(pIn.primary, n).columns,
                                LastNamed(pIn.replica, n).columns)
    /\ ParityDone("compareColumns") =>
         ColumnPresence(pOut[1], "t", pIn.primaryCols, pIn.replicaCols)

\* a table with a key and columns that the replica lacks, next to a table
\* on both sides with a column missing and an extra column on the replica
C27_Witness ==
    /\ ParityDone("compareSchemas")
    /\ NamesIn(pIn.primary) = {"t", "u"}
    /\ NamesIn(pIn.replica) = {"t"}
    /\ \E i \in DOMAIN pOut[1] : pOut[1][i].msg = <<"table missing on replica">>
    /\ \E i \in DOMAIN pOut[1] : pOut[1][i].msg = <<"column missing on replica">>
    /\ \E i \in DOMAIN pOut[1] : pOut[1][i].msg = <<"has extra column on replica">>

AttributeRule(findings, table, primaryCols, replicaCols) ==
    \A c \in NamesIn(primaryCols) \cap NamesIn(replicaCols) :
        LET pCol == LastNamed(primaryCols, c)
            rCol == LastNamed(replicaCols, c)
            places == AboutColumn(findings, table, c)
            count(sev, msg) ==
                Cardinality({i \in places :
                    findings[i].sev = sev /\ findings[i].msg = <<msg>>})
        IN /\ count(SeverityBlock, "type mismatch") = Ones(pCol.type # rCol.type)
           /\ count(SeverityWarn, "nullability differs")
                = Ones(pCol.nullable # rCol.nullable)
           /\ count(SeverityWarn, "default differs") = Ones(pCol.default # rCol.default)
           /\ count(SeverityWarn, "collation differs")
                = Ones(pCol.collation # rCol.collation)
           /\ Cardinality(places)
                = Ones(pCol.type # rCol.type) + Ones(pCol.nullable # rCol.nullable)
                  + Ones(pCol.default # rCol.default)
                  + Ones(pCol.collation # rCol.collation)

\* C28: for a column found on both sides compareColumns returns one Block
\* when the types differ and one Warn each when the nullability, the
\* default or the collation differs, and nothing else about that column: up
\* to one Block and three Warn, a Warn and no Block when only the
\* nullability differs, nothing when the four are equal; comparing a column
\* list or a schema with itself returns no finding.
C28_Attributes ==
    /\ ParityDone("compareColumns") =>
         /\ AttributeRule(pOut[1], "t", pIn.primaryCols, pIn.replicaCols)
         /\ pIn.primaryCols = pIn.replicaCols => pOut[1] = <<>>
    /\ ParityDone("compareSchemas") =>
         /\ \A n \in NamesIn(pIn.primary) \cap NamesIn(pIn.replica) :
              AttributeRule(pOut[1], n, LastNamed(pIn.primary, n).columns,
                            LastNamed(pIn.replica, n).columns)
         /\ pIn.primary = pIn.replica => pOut[1] = <<>>

\* one column that differs in type, nullability, default and collation gives
\* one Block and three Warn
C28_Witness ==
    /\ ParityDone("compareColumns")
    /\ pIn.primaryCols = <<Column("a", "int", FALSE, <<"0">>, "utf8", "c1")>>
    /\ pIn.replicaCols = <<Column("a", "text", TRUE, <<"1">>, "utf8", "c2")>>
    /\ Len(pOut[1]) = 4
    /\ Cardinality({i \in 1..4 : pOut[1][i].sev = SeverityBlock}) = 1
    /\ Cardinality({i \in 1..4 : pOut[1][i].sev = SeverityWarn}) = 3

(* ------------- ResultAggregator and applySummary: claims -------------- *)
SevCount(findings, sv) == Cardinality({i \in DOMAIN findings : findings[i].sev = sv})
Totals(findings) ==
    [info |-> SevCount(findings, SeverityInfo), warn |-> SevCount(findings, SeverityWarn),
     block |-> SevCount(findings, SeverityBlock)]
Shuffles(n) == {q \in [1..n -> 1..n] : \A i, j \in 1..n : q[i] = q[j] => i = j}
\* the findings in the order q, cut after the first k into two batches
FirstBatch(findings, q, k) == [i \in 1..k |-> findings[q[i]]]
SecondBatch(findings, q, k) == [i \in 1..(Len(findings) - k) |-> findings[q[k + i]]]

\* C29: the totals of a ResultAggregator and of a Summary under applySummary
\* are, whatever the batches the findings came in, the numbers of Info, Warn
\* and Block findings handed over; the same findings in any other order, cut
\* into two batches at any place, give the same totals.
C29_OrderIndependent ==
    /\ aAgg.summary = Totals(Joined(aBatches))
    /\ ySummary = Totals(Joined(yBatches))
    /\ LET all == Joined(aBatches)
       IN \A q \in Shuffles(Len(all)) : \A k \in 0..Len(all) :
            AddFindings(AddFindings(NewAggregator, FirstBatch(all, q, k)),
                        SecondBatch(all, q, k)).summary = aAgg.summary
    /\ LET all == Joined(yBatches)
       IN \A q \in Shuffles(Len(all)) : \A k \in 0..Len(all) :
            checksApplySummary(checksApplySummary(ZeroSummary, FirstBatch(all, q, k)),
                               SecondBatch(all, q, k)) = ySummary

\* a Warn, then a batch of a Block and an Info, under applySummary
C29_Witness ==
    /\ Len(yBatches) = 2
    /\ Len(yBatches[1]) = 1 /\ yBatches[1][1].sev = SeverityWarn
    /\ Len(yBatches[2]) = 2
    /\ yBatches[2][1].sev = SeverityBlock /\ yBatches[2][2].sev = SeverityInfo
    /\ ySummary = [info |-> 1, warn |-> 1, block |-> 1]

BlockAdded == \E i \in DOMAIN Joined(aBatches) : Joined(aBatches)[i].sev = SeverityBlock

\* C30: AddFindings returns true exactly when no Block finding was handed
\* over in this call or an earlier one; Blocked() is true exactly when one
\* was, which is exactly when Summary().Block > 0; and once Blocked() is
\* true it stays true, whatever the later batches.
C30_Sticky ==
    /\ [](/\ aRet # <<>> => (aRet[1] = ~BlockAdded)
          /\ aAgg.blocked = BlockAdded
          /\ aAgg.blocked = (aAgg.summary.block > 0))
    /\ [][aAgg.blocked => aAgg'.blocked]_vars

\* a Block, then an empty batch, then a batch of a Warn: still blocked
C30_Witness ==
    /\ Len(aBatches) = 3
    /\ Len(aBatches[1]) = 1 /\ aBatches[1][1].sev = SeverityBlock
    /\ aBatches[2] = <<>>
    /\ Len(aBatches[3]) = 1 /\ aBatches[3][1].sev = SeverityWarn
    /\ aRet = <<FALSE>>
    /\ aAgg.blocked

(* ------------------- MySQL compatibility check: claims ----------------- *)
CompatDone == pFn = "MySQLCompatibilityCheck.Run" /\ pPc = "returned"
\* two names that differ in case at most
SameName(a, b) ==
    /\ Len(a) = Len(b)
    /\ \A i \in 1..Len(a) : FoldChar(a[i]) = FoldChar(b[i])
\* the name is one of the entries of the comma-separated sql_mode, blanks
\* around an entry aside
ModePresent(mode, sqlMode) ==
    \E i \in 1..Len(sqlMode) : \E j \in i..Len(sqlMode) :
        /\ i = 1 \/ sqlMode[i - 1] = ","
        /\ j = Len(sqlMode) \/ sqlMode[j + 1] = ","
        /\ \A k \in i..j : sqlMode[k] # ","
        /\ TrimSpace(SubSeq(sqlMode, i, j)) # <<>>
        /\ SameName(mode, TrimSpace(SubSeq(sqlMode, i, j)))
FeatureUsed(feature, used) ==
    \E k \in 1..Len(used) : SameName(feature, TrimSpace(used[k]))
Risky(list, value) ==
    value # <<>> /\ \E k \in 1..Len(list) : SameName(list[k], value)
WithMsg(findings, sev, msg) ==
    {i \in DOMAIN findings : findings[i].sev = sev /\ findings[i].msg = <<msg>>}
TablesWithout(tables) == {i \in DOMAIN tables : tables[i].primaryKey = <<>>}
\* the places <<table, column>> of the columns of a schema
ColumnsAt(tables) ==
    UNION {{<<i, j>> : j \in DOMAIN tables[i].columns} : i \in DOMAIN tables}

\* C31: when its reads succeed, MySQLCompatibilityCheck.Run returns one
\* Block for each table without a primary key and for each configured
\* deprecated feature that is reported in use, one Warn for each configured
\* deprecated sql_mode that is among the entries of sql_mode, and one Warn
\* for each column whose charset, and one for each column whose collation,
\* is a configured risky one, names being compared without regard to case;
\* and one Info, alone, exactly when there is no other finding.
C31_Compatibility ==
    (CompatDone /\ pOut[1].err = <<>>) =>
        LET f == pOut[1].findings
            c == pIn.check
            tables == pIn.insp.tables
            infos == {i \in DOMAIN f : f[i].sev = SeverityInfo}
        IN /\ \A i \in TablesWithout(tables) :
                Cardinality({k \in WithMsg(f, SeverityBlock, "missing primary key (CDC risk)") :
                                f[k].meta.table = tables[i].name}) = 1
           /\ Cardinality(WithMsg(f, SeverityBlock, "missing primary key (CDC risk)"))
                = Cardinality(TablesWithout(tables))
           /\ Cardinality(WithMsg(f, SeverityBlock, "deprecated feature detected"))
                = Cardinality({i \in 1..Len(c.deprecatedFeatures) :
                                 FeatureUsed(c.deprecatedFeatures[i], pIn.insp.features)})
           /\ Cardinality(WithMsg(f, SeverityWarn, "sql_mode includes deprecated mode"))
                = Cardinality({i \in 1..Len(c.deprecatedSQLModes) :
                                 ModePresent(c.deprecatedSQLModes[i], pIn.insp.sqlMode)})
           /\ Cardinality(WithMsg(f, SeverityWarn, "uses risky charset"))
                = Cardinality({p \in ColumnsAt(tables) :
                                 Risky(c.riskyCharsets, tables[p[1]].columns[p[2]].charset)})
           /\ Cardinality(WithMsg(f, SeverityWarn, "uses risky collation"))
                = Cardinality({p \in ColumnsAt(tables) :
                                 Risky(c.riskyCollations, tables[p[1]].columns[p[2]].collation)})
           /\ Cardinality(infos) <= 1
           /\ (Cardinality(infos) = 1) = (DOMAIN f \ infos = {})

\* a table without a key whose column has a risky charset written in
\* another case, a deprecated feature in use and a deprecated sql_mode
C31_Witness ==
    /\ CompatDone
    /\ pOut[1].err = <<>>
    /\ Cardinality(WithMsg(pOut[1].findings, SeverityBlock, "missing primary key (CDC risk)")) = 1
    /\ Cardinality(WithMsg(pOut[1].findings, SeverityBlock, "deprecated feature detected")) = 1
    /\ Cardinality(WithMsg(pOut[1].findings, SeverityWarn, "sql_mode includes deprecated mode")) = 2
    /\ Cardinality(WithMsg(pOut[1].findings, SeverityWarn, "uses risky charset")) = 1
    /\ pIn.check.riskyCharsets = << <<"B">>, <<"a">> >>
    /\ pIn.insp.tables[1].columns[1].charset = <<"A">>

(* ------------- Replica Upgrade Orchestrator: further claims ------------ *)
\* the step in which invocation r invokes the action of phase ph
Invokes(r, ph) == LogGrew(r) /\ NewEntry(r).op = PhaseAction[ph]

\* C32: phase ordering. From an empty checkpoint store, over any sequence
\* of invocations of Run, one after the other, whose actions succeed or
\* fail: for every replica the resumed checkpoint is set only if the
\* upgraded one is, and the upgraded one only if the stopped one is;
\* RunUpgrade is invoked only with the stopped checkpoint set and
\* StartReplication only with the upgraded checkpoint set; and a checkpoint
\* that is set is never cleared.
C32_PhaseOrdering ==
    /\ [](\A h \in OrchHosts :
            /\ CheckpointSet(h, 3) => CheckpointSet(h, 2)
            /\ CheckpointSet(h, 2) => CheckpointSet(h, 1))
    /\ [][/\ \A r \in SeqSlots :
               /\ Invokes(r, 2) => CheckpointSet(oReplica[r], 1)
               /\ Invokes(r, 3) => CheckpointSet(oReplica[r], 2)
          /\ \A h \in OrchHosts : \A ph \in OrchPhases :
               CheckpointSet(h, ph) => oStore'[CheckpointKey(h, ph)] = "true"]_vars

\* a third invocation for a replica, after a failed RunUpgrade and a failed
\* StartReplication, has set the last checkpoint
C32_Witness ==
    /\ oRuns = 3
    /\ oFailures[<<"a">>] = 2
    /\ oCalls[<<"a">>] = <<1, 2, 2>>
    /\ CheckpointSet(<<"a">>, 1) /\ CheckpointSet(<<"a">>, 2) /\ CheckpointSet(<<"a">>, 3)

HasWarn(findings) == \E i \in 1..Len(findings) : findings[i].sev = SeverityWarn
StoppedButRunning(findings) ==
    \E i \in 1..Len(findings) :
        findings[i] = OFinding(SeverityWarn,
                               "checkpoint indicates replication stopped but status is running")
InLog(r, op) == \E i \in 1..Len(oLog[r]) : oLog[r][i].op = op
HasInfo(r, msg) ==
    \E i \in 1..Len(oFindings[r]) : oFindings[r][i] = OFinding(SeverityInfo, msg)

\* C36: a partial-progress Warn never halts Run. The step that reads the
\* status and appends a Warn goes on to the first phase; from there the run
\* invokes the action of every phase it finds unset and ends before the
\* last phase only when an action fails. With the stopped checkpoint set,
\* upgraded unset and both threads running, the run that emitted the Warn
\* does not invoke StopReplication and invokes RunUpgrade.
C36_WarnDoesNotHalt ==
    /\ [][\A r \in SeqSlots :
            /\ (StatusRead(r) /\ HasWarn(Appended(r))) =>
                   (oPc'[r] = "check" /\ oPhase'[r] = 1)
            /\ (HasWarn(oFindings[r]) /\ oPc[r] = "check"
                /\ ~CheckpointSet(oReplica[r], oPhase[r])) =>
                   (oPc'[r] = "act" /\ oPhase'[r] = oPhase[r])
            /\ (HasWarn(oFindings[r]) /\ oPc[r] = "act") => Invokes(r, oPhase[r])
            /\ (HasWarn(oFindings[r]) /\ oPc[r] \in {"check", "act"}
                /\ oPc'[r] = "returned" /\ oPhase[r] < NumPhases) =>
                   (Invokes(r, oPhase[r]) /\ NewEntry(r).res = "error")]_vars
    /\ [](\A r \in SeqSlots :
            (oPc[r] = "returned" /\ StoppedButRunning(oFindings[r])) =>
                /\ ~InLog(r, "StopReplication")
                /\ HasInfo(r, "replication already stopped")
                /\ InLog(r, "RunUpgrade") \/ HasInfo(r, "upgrade already completed"))

\* stopped set, upgraded unset, both threads running: the run has warned,
\* left StopReplication alone and invoked RunUpgrade and StartReplication
C36_Witness ==
    /\ oPc[1] = "returned"
    /\ oRuns = 1
    /\ StoppedButRunning(oFindings[1])
    /\ ~InLog(1, "StopReplication")
    /\ InLog(1, "RunUpgrade")
    /\ InLog(1, "StartReplication")
    /\ oSummary[1] = [info |-> 3, warn |-> 1, block |-> 0]

AllSet(h) == \A ph \in OrchPhases : CheckpointSet(h, ph)
NoAction(r) == \A i \in 1..Len(oLog[r]) : ~IsActionEntry(oLog[r][i])
PhaseInfos(r) == {i \in 1..Len(oFindings[r]) : oFindings[r][i].sev = SeverityInfo}
\* an invocation that has gone through the three phases without an action
ResumedRun(r) ==
    /\ oPc[r] = "returned"
    /\ InLog(r, "ReplicationStatus")
    /\ NoAction(r)
\* an invocation that the primary guard has stopped
GuardStopped(r) ==
    /\ oPc[r] = "returned"
    /\ InLog(r, "IsPrimary")
    /\ ~InLog(r, "ReplicationStatus")
\* IsPrimary has answered that the replica is the primary
ReportedPrimary(r) ==
    \E i \in 1..Len(oLog[r]) : oLog[r][i] = LogEntry("IsPrimary", oReplica[r], "true")
\* the invocation has passed the primary guard: IsPrimary has answered,
\* without an error, that the replica is not the primary
GuardPassed(r) == oPc[r] = "status"

\* C37 as stated: Run is invoked again and again for one replica that is
\* never reported to be the primary, and an action that is attempted again
\* and again succeeds in the end: then the three checkpoints end up set,
\* and from then on every Run that has returned has invoked no action and
\* returned no Block and exactly three Info findings.  IsPrimary may fail
\* in every Run, and can fail in a Run after the checkpoints are set, so
\* this statement of the claim does not hold.
C37_AsStated ==
    [](~ReportedPrimary(1)) =>
        <>[](/\ AllSet(<<"a">>)
             /\ oPc[1] = "returned" =>
                    /\ NoAction(1)
                    /\ oSummary[1].block = 0
                    /\ oSummary[1].info = 3)

\* C37, amended: resumption. Run is invoked again and again for one
\* replica on one checkpoint store, and an action that is attempted again
\* and again succeeds in the end.  If again and again a Run passes the
\* primary guard, the three checkpoints end up set for good, and Runs that
\* go through the phases without an action keep returning.  Once the
\* checkpoints are set no Run invokes an action; every Run that passes the
\* guard without invoking an action has found them set and returns no Block
\* and exactly three Info findings, one for each phase already done; every
\* Run that the guard stops, by an error of IsPrimary or by its answer,
\* returns one Block finding and nothing else, and leaves the store as it is.
C37_Resumption ==
    /\ ([]<>GuardPassed(1)) => <>[]AllSet(<<"a">>)
    /\ ([]<>GuardPassed(1)) => []<>(AllSet(<<"a">>) /\ ResumedRun(1))
    /\ [][AllSet(<<"a">>) => \A ph \in OrchPhases : ~Invokes(1, ph)]_vars
    /\ [][AllSet(<<"a">>) => AllSet(<<"a">>)']_vars
    /\ [](ResumedRun(1) =>
            /\ AllSet(oReplica[1])
            /\ ~hasBlock(oFindings[1])
            /\ oSummary[1].block = 0 /\ oSummary[1].info = 3
            /\ Cardinality(PhaseInfos(1)) = 3
            /\ \A ph \in OrchPhases : HasInfo(1, PhaseAlreadyMsg[ph]))
    /\ [](GuardStopped(1) =>
            /\ NoAction(1)
            /\ Len(oFindings[1]) = 1
            /\ oFindings[1][1].sev = SeverityBlock
            /\ oSummary[1] = [ZeroSummary EXCEPT !.block = 1])
    /\ [][OrchCheckPrimary(1) => UNCHANGED oStore]_vars

\* after failed actions, a Run on a store with the three checkpoints set
\* has passed the primary guard and returned its three Info findings
\* without invoking an action
C37_Witness ==
    /\ AllSet(<<"a">>)
    /\ ResumedRun(1)
    /\ oFailures[<<"a">>] >= 2
    /\ oSummary[1].info = 3
    /\ oSummary[1].block = 0

ReadsUnset(r) == oPc[r] = "check" /\ oPc'[r] = "act"
SucceededIn(r, ph) ==
    \E i \in 1..Len(oLog[r]) : oLog[r][i] = LogEntry(PhaseAction[ph], oReplica[r], "ok")

\* C39: nothing coordinates two invocations of Run on one store.  A run
\* invokes a phase's action after reading the phase's checkpoint as unset,
\* and does not read it again: once it has read it, the invocation can take
\* place whatever the other run has stored in between, also when the
\* checkpoint is set by then; and the checkpoint is written in a later call
\* than the action, whatever the store holds by then.
C39_Uncoordinated ==
    /\ [](\A r \in OrchSlots :
            /\ oPc[r] = "act" => ENABLED OrchPhaseAct(r)
            /\ oPc[r] = "set" => ENABLED OrchPhaseSet(r))
    /\ [][\A r \in OrchSlots :
            /\ ReadsUnset(r) => ~CheckpointSet(oReplica[r], oPhase[r])
            /\ \A ph \in OrchPhases : Invokes(r, ph) => oPc[r] = "act" /\ oPhase[r] = ph]_vars

\* both runs read the stopped checkpoint as unset before either set it, and
\* both have invoked StopReplication on the replica, with success
C39_Witness ==
    /\ oReplica[1] = oReplica[2]
    /\ SucceededIn(1, 1) /\ SucceededIn(2, 1)
    /\ oCalls[oReplica[1]][1] = 2
    /\ oRuns = 2

(* ------------------- Workflow Runner: further claims ------------------- *)
NamesUpTo(k) == {rSteps[i].name : i \in 1..k}
CompletedIsPrefix == \E k \in 0..Len(rSteps) : rCompleted = NamesUpTo(k)
\* a step's Run is invoked by this transition
StepRunInvoked == Len(rInvoked') = Len(rInvoked) + 1
LastInvoked == rInvoked'[Len(rInvoked')]

\* C33: with distinct step names and a store that starts empty, after any
\* sequence of Run invocations the completed steps are the names of a prefix
\* of the step list, and a step's Run is invoked only when every earlier
\* step of the list is completed
C33_PrefixInvariant ==
    /\ [](CompletedIsPrefix)
    /\ [][StepRunInvoked => NamesUpTo(LastInvoked - 1) \subseteq rCompleted]_vars

\* a later invocation, with mutations now allowed, resumes at the second
\* step after an earlier invocation stopped there, and completes the list
C33_Witness ==
    /\ rPc = "returned"
    /\ Len(rSteps) = 2
    /\ rSteps[2].mutates
    /\ rInvoked = <<2>>
    /\ rCompleted = {rSteps[1].name, rSteps[2].name}
    /\ rResults[rSteps[1].name] # NoResult

RunnerReturns(err) == rPc' = "returned" /\ rErr' = err
NothingRecorded == UNCHANGED <<rCompleted, rResults, rSummary, rInvoked>>
StepDone == rSteps[rIdx].name \in rCompleted
StepGated == rSteps[rIdx].mutates /\ ~rAllow
GateBlock(name) ==
    /\ rResults'[name].present
    /\ \E i \in 1..Len(rResults'[name].findings) :
          rResults'[name].findings[i].sev = SeverityBlock
    /\ rSummary'.block = rSummary.block + 1

\* C34: at each step the runner tests, in this order, cancellation, the
\* completion mark and the mutation gate: a cancelled context returns the
\* context's error; otherwise a completed step is skipped without a Block
\* and the run continues, even when the step mutates and AllowMutations is
\* false; otherwise a mutating step with AllowMutations false is blocked
\* without being run
C34_CheckOrder ==
    [][(rPc = "loop" /\ rIdx <= Len(rSteps) /\ (rIdx' # rIdx \/ rPc' # rPc)) =>
         IF rCtxDone
         THEN RunnerReturns("ctx") /\ rIdx' = rIdx /\ NothingRecorded
         ELSE IF StepDone
              THEN rPc' = "loop" /\ rIdx' = rIdx + 1 /\ NothingRecorded
              ELSE StepGated =>
                     /\ RunnerReturns("nil") /\ rIdx' = rIdx
                     /\ GateBlock(rSteps[rIdx].name)
                     /\ UNCHANGED <<rCompleted, rInvoked>>]_vars

\* a completed mutating step was passed over with AllowMutations false, and
\* the run went on to run the next step and finished without a Block
C34_Witness ==
    /\ rPc = "returned" /\ rErr = "nil"
    /\ Len(rSteps) = 2
    /\ rSteps[1].mutates /\ ~rAllow
    /\ rInvoked = <<2>>
    /\ rSummary.block = 0
    /\ rResults[rSteps[1].name] = NoResult
    /\ rCompleted = {rSteps[1].name, rSteps[2].name}

(* -------------------- Checks Runner: further claims -------------------- *)
\* C35: read-only-ness is validated before any check executes.  When the
\* list holds a check that is not read-only, at any position, no check of
\* the list has its Run invoked, the read-only checks in front of it included.
C35_AsStated == (\E i \in 1..Len(cChecks) : ~cChecks[i].readOnly) => cInvoked = <<>>

(* ------------------- Checkpoint State: further claims ------------------ *)
\* the writes that have returned on a State, in order
SetsOf(o, k) == {i \in 1..Len(sDone[o]) : sDone[o][i].op = "Set" /\ sDone[o][i].key = k}
LastOf(S) == CHOOSE i \in S : \A j \in S : j <= i
ValueSet(o, k) == IF SetsOf(o, k) = {} THEN "absent" ELSE sDone[o][LastOf(SetsOf(o, k))].value
WasMarked(o, st) ==
    \E i \in 1..Len(sDone[o]) : sDone[o][i].op = "MarkCompleted" /\ sDone[o][i].step = st
\* what Get and IsCompleted would return now
GetNow(o, k) == IF o = "m" THEN mValues[k] ELSE sData[o][k]
IsCompletedNow(o, st) ==
    IF o = "m" THEN st \in mCompleted ELSE sData[o][completedKey(st)] = "true"
SameWrites(o1, o2) ==
    /\ Len(sDone[o1]) = Len(sDone[o2])
    /\ \A i \in 1..Len(sDone[o1]) :
          [sDone[o1][i] EXCEPT !.inst = ""] = [sDone[o2][i] EXCEPT !.inst = ""]

\* C38: in every State the key/value mapping and the completion marks are
\* independent.  Get(k) returns the value of the last Set(k, v) whatever
\* steps were marked, IsCompleted(s) is true exactly when MarkCompleted(s)
\* was called whatever keys were set, and so a FileState and a MemoryState
\* that received the same writes return the same results.
C38_AsStated ==
    AllIdle =>
      /\ \A o \in {"f1", "m"} :
            /\ \A k \in StateKeys : GetNow(o, k) = ValueSet(o, k)
            /\ \A st \in StateSteps : IsCompletedNow(o, st) = WasMarked(o, st)
      /\ SameWrites("f1", "m") =>
            /\ \A k \in StateKeys : GetNow("f1", k) = GetNow("m", k)
            /\ \A st \in StateSteps : IsCompletedNow("f1", st) = IsCompletedNow("m", st)

\* the file holds the encoding of the whole map of the instance
HoldsMapOf(file, i) == file.exists /\ file.bytes = Marshal(sData[i])

\* C40 as stated: two FileState instances on one path, after writes of
\* both that reported no failure to persist, the file holds the map of the
\* last writer, which is one of the two instances.  Two calls of
\* os.WriteFile that overlap leave bytes of both in the file, so this
\* statement of the claim does not hold.
C40_AsStated ==
    (/\ AllIdle
     /\ \A i \in FileInstances : sOpen[i] = "open" /\ ~sFailed[i] /\ sDone[i] # <<>>)
        => \E i \in FileInstances : HoldsMapOf(sFile, i)

(* --------------------------- specifications ---------------------------- *)
\* the components run separately; a component that is not exercised by a
\* specification stays as constructed
RunnerFixed ==
    /\ rSteps = <<>> /\ rAllow = FALSE /\ rCompleted = {}
    /\ rResults = [n \in StepNames |-> NoResult]
    /\ rSummary = ZeroSummary /\ rErr = "nil" /\ rPc = "idle" /\ rIdx = 0
    /\ rCtxDone = FALSE /\ rInvoked = <<>>
    /\ rLastOut = [findings |-> <<>>, err |-> FALSE]

OrchFixed ==
    /\ OrchInit
    /\ oPrimary = <<>> /\ oInspectorNil = FALSE /\ oActionsNil = FALSE

GateFixed ==
    /\ GateInit
    /\ gPhrase = <<>> /\ gRequired = <<>> /\ gChecks = <<>>

ChecksFixed ==
    /\ ChecksInit
    /\ cChecks = <<>>

StateFixed == StateInit
PureFixed == PureInit("none", {<<>>})
AggFixed == AggInit
OneCheckFixed ==
    /\ OneCheckInit
    /\ kCheck = "schema_parity"
    /\ kCfg = CheckField(TRUE, TRUE, 0, 0)
    /\ kInsp = Inspector(FALSE, "RUNNING", <<>>, FALSE, 0, 0, "false", "false",
                         "missing", NoSchema, NoSchema)

InitRunner ==
    OrchFixed /\ GateFixed /\ ChecksFixed /\ StateFixed /\ OneCheckFixed /\ PureFixed /\ AggFixed /\ RunnerInit
InitOrch ==
    RunnerFixed /\ GateFixed /\ ChecksFixed /\ StateFixed /\ OneCheckFixed /\ PureFixed /\ AggFixed /\ OrchInit
InitGate ==
    RunnerFixed /\ OrchFixed /\ ChecksFixed /\ StateFixed /\ OneCheckFixed /\ PureFixed /\ AggFixed /\ GateInit
InitChecks ==
    RunnerFixed /\ OrchFixed /\ GateFixed /\ StateFixed /\ OneCheckFixed /\ PureFixed /\ AggFixed /\ ChecksInit
InitState ==
    RunnerFixed /\ OrchFixed /\ GateFixed /\ ChecksFixed /\ OneCheckFixed /\ PureFixed /\ AggFixed /\ StateInit

SpecRunner == InitRunner /\ [][RunnerNext]_vars
\* Run invoked any number of times on a store that starts empty
InitRunnerRuns ==
    OrchFixed /\ GateFixed /\ ChecksFixed /\ StateFixed /\ OneCheckFixed /\ PureFixed /\ AggFixed /\ RunnerInitEmpty
SpecRunnerRuns == InitRunnerRuns /\ [][RunnerRunsNext]_vars
SpecOrch == InitOrch /\ [][OrchNext]_vars
\* an orchestrator with its inspector and actions, invoked without end
InitOrchResume == InitOrch /\ ~oInspectorNil /\ ~oActionsNil
SpecOrchResume == InitOrchResume /\ [][OrchResumeNext]_vars /\ OrchResumeFair
\* two invocations of Run in progress at once on one store
InitOrchConc == InitOrchResume /\ oPrimary = <<"p">>
SpecOrchConc == InitOrchConc /\ [][OrchConcNext]_vars
SpecGate == InitGate /\ [][GateNext]_vars
SpecChecks == InitChecks /\ [][ChecksNext]_vars

\* the orchestrator on a checkpoint store that was written to before
InitOrchPreloaded ==
    RunnerFixed /\ GateFixed /\ ChecksFixed /\ StateFixed /\ OneCheckFixed /\ PureFixed /\ AggFixed /\ OrchInitPreloaded
SpecOrchPreloaded == InitOrchPreloaded /\ [][OrchNext]_vars

InitOneCheck ==
    RunnerFixed /\ OrchFixed /\ GateFixed /\ ChecksFixed /\ StateFixed /\ PureFixed /\ AggFixed /\ OneCheckInit
\* one check, run once against its inspector
SpecOneCheck == InitOneCheck /\ [][OneCheckNext]_vars

\* one function, called once
OthersFixed ==
    RunnerFixed /\ OrchFixed /\ GateFixed /\ ChecksFixed /\ StateFixed /\ OneCheckFixed
NotPureFixed == OthersFixed /\ AggFixed
InitCoverage == NotPureFixed /\ CoverageInit
SpecCoverage == InitCoverage /\ [][CoverageApply]_vars
InitValidate == NotPureFixed /\ ValidateInit
SpecValidate == InitValidate /\ [][ValidateApply]_vars
InitCompat == NotPureFixed /\ CompatInit
SpecCompat == InitCompat /\ [][CompatApply]_vars
InitParity == NotPureFixed /\ (PrimaryKeyInit \/ ColumnsInit \/ SchemasInit)
SpecParity == InitParity /\ [][ParityNext]_vars

\* a ResultAggregator, or a Summary under applySummary, fed batch after batch
InitAggregator == OthersFixed /\ PureFixed /\ AggInit
SpecAggregator == InitAggregator /\ [][AggNext]_vars

\* a FileState used by one thread, and States shared by two threads
SpecFileState == InitState /\ [][FileSeqNext]_vars
SpecStateConc == InitState /\ [][StateConcNext]_vars
\* two FileState instances on one path, written to in turn or at once
SpecTwoFiles == InitState /\ [][TwoFilesNext]_vars
\* a FileState and a MemoryState used side by side by one thread
SpecStatePair == InitState /\ [][StatePairNext]_vars

\* the Checks Runner called directly (preflight) or behind the Promotion
\* Gate (promotion): a behaviour is one or the other
InitChecksOrGate == InitChecks \/ InitGate
ChecksOrGateNext ==
    \/ gPc = "idle" /\ ChecksNext
    \/ cPc = "idle" /\ GateNext
SpecChecksAndGate == InitChecksOrGate /\ [][ChecksOrGateNext]_vars

Init == InitRunner \/ InitOrch \/ InitGate \/ InitChecks \/ InitOrchPreloaded \/ InitState
        \/ InitOneCheck \/ InitCoverage \/ InitValidate \/ InitParity \/ InitAggregator
        \/ InitCompat
Next == RunnerRunsNext \/ OrchNext \/ OrchConcNext \/ GateNext \/ ChecksNext \/ FileSeqNext \/ StateConcNext
        \/ StatePairNext \/ TwoFilesNext
        \/ OneCheckNext \/ CoverageApply \/ ValidateApply \/ ParityNext \/ AggNext
        \/ CompatApply
Spec == Init /\ [][Next]_vars
====
